---- MODULE Spec2Model ----
(***************************************************************************)
(* A model of the funntour backend registries: the geographic hierarchy    *)
(* (pais -> estado -> cidade), and the user registry with authentication   *)
(* and password-reset tokens.  The relational store is the state; every    *)
(* service method is one action (one request, one session, one commit).    *)
(*                                                                         *)
(* Text values are tuples of one-character strings, so that strip(),       *)
(* title(), upper(), lower() and the digit filter are computed as Python   *)
(* computes them.  An Optional value is <<>> (None) or <<v>> (a value).    *)
(***************************************************************************)
EXTENDS Integers, Sequences, FiniteSets, TLC

VARIABLES
    pais,      \* table "pais": sequence of rows, the id is the position
    estado,    \* table "estado"
    cidade,    \* table "cidade"
    perfil,    \* table "perfil"
    endereco,  \* table "endereco"
    usuario,   \* table "usuario"
    tokens,    \* what generate_password_reset_token has returned so far
    tz,        \* utcoffset of the host's local time zone, in minutes
    senhas,    \* history: per user id, the password most recently set
    trocadas,  \* history: the issued tokens whose user's password was set since
    pending,   \* per session, the create that has passed its duplicate check
    now        \* the wall clock read by datetime.now() / func.now()

geoVars == <<pais, estado, cidade>>
userVars == <<perfil, endereco, usuario>>
authVars == <<tokens, tz, senhas, trocadas>>
vars == <<pais, estado, cidade, perfil, endereco, usuario, now,
          tokens, tz, senhas, trocadas, pending>>

-----------------------------------------------------------------------------
(* Bounds of the model.                                                    *)
MaxPerTable == 2
MaxRows == 4        \* rows of the three geographic tables together
MaxClockRows == 3   \* the same, in the specification where the clock advances
MaxClock == 1       \* last instant of the clock

-----------------------------------------------------------------------------
(* Optional values.                                                        *)
None == <<>>
Some(v) == <<v>>
IsSome(o) == o # <<>>
Get(o) == o[1]

-----------------------------------------------------------------------------
(* Python str methods over tuples of characters.                           *)
LowerChar(c) ==
    CASE c = "S" -> "s" [] c = "P" -> "p" [] c = "R" -> "r" [] c = "J" -> "j"
      [] OTHER -> c

UpperChar(c) ==
    CASE c = "s" -> "S" [] c = "p" -> "P" [] c = "r" -> "R" [] c = "j" -> "J"
      [] OTHER -> c

IsCased(c) == c \in {"s", "p", "r", "j", "S", "P", "R", "J"}

IsSpace(c) == c = " "

\* str.lower()
Lower(s) == [i \in 1..Len(s) |-> LowerChar(s[i])]

\* str.upper()
Upper(s) == [i \in 1..Len(s) |-> UpperChar(s[i])]

\* str.title(): a cased character is upper-cased when the character before
\* it is not cased (or there is none), lower-cased otherwise.
Title(s) ==
    [i \in 1..Len(s) |->
        IF i > 1 /\ IsCased(s[i - 1]) THEN LowerChar(s[i]) ELSE UpperChar(s[i])]

RECURSIVE LStrip(_)
LStrip(s) == IF s # <<>> /\ IsSpace(Head(s)) THEN LStrip(Tail(s)) ELSE s

RECURSIVE RStrip(_)
RStrip(s) ==
    IF s # <<>> /\ IsSpace(s[Len(s)]) THEN RStrip(SubSeq(s, 1, Len(s) - 1)) ELSE s

\* str.strip()
Strip(s) == RStrip(LStrip(s))

\* Python truthiness of an Optional[str]: None and "" are falsy.
Truthy(o) == IsSome(o) /\ Get(o) # <<>>

\* str.isdigit, ''.join(filter(str.isdigit, v))
IsDigit(c) == c \in {"0", "1", "2", "3", "4", "5", "6", "7", "8", "9"}
Digits(s) == SelectSeq(s, IsDigit)

\* str.capitalize: first character upper-cased, the rest lower-cased.
Capitalize(w) ==
    IF w = <<>> THEN <<>> ELSE <<UpperChar(Head(w))>> \o Lower(Tail(w))

\* " ".join(word.capitalize() for word in v.strip().split())
RECURSIVE CapitalizeWords(_)
CapitalizeWords(s) ==
    LET t == LStrip(s) IN
    IF t = <<>> THEN <<>>
    ELSE LET n == CHOOSE k \in 1..Len(t) :
                     /\ \A j \in 1..k : ~IsSpace(t[j])
                     /\ (k = Len(t) \/ IsSpace(t[k + 1]))
             rest == CapitalizeWords(SubSeq(t, n + 1, Len(t)))
         IN Capitalize(SubSeq(t, 1, n)) \o (IF rest = <<>> THEN <<>> ELSE <<" ">> \o rest)

-----------------------------------------------------------------------------
(* Request payloads: the raw texts a client sends.                         *)
RawNames == { <<" ", "s", "P", " ">>, <<"r", "j">> }
RawSiglas == { <<" ", "s", "p", " ">>, <<"r", "J">> }
RawCidadeSiglas == { <<"s", "p">>, <<"S", "P">> }

OptOf(S) == {None} \cup {Some(v) : v \in S}

-----------------------------------------------------------------------------
(* Outcomes of a service call.                                             *)
\* kind: "entity" (the record), "message" (a str: duplicate conflict),
\* "none" (None), "true"/"false" (delete), "fault" (an exception, re-raised
\* after rollback).  msg: which duplicate message ("nome" / "sigla").
\* A step of a service method is [tbl |-> the table after it, out |-> outcome].
Outcome(kind, id, msg) == [kind |-> kind, id |-> id, msg |-> msg]
Step(tbl, out) == [tbl |-> tbl, out |-> out]

Rows == Len(pais) + Len(estado) + Len(cidade)

-----------------------------------------------------------------------------
(* schemas/pais.py                                                         *)
PaisBase(descricao, sigla) ==
    [descricao |-> Title(Strip(descricao)), sigla |-> Upper(Strip(sigla))]

UpdatePais(descricao, sigla) ==
    [descricao |-> IF IsSome(descricao) THEN Some(Title(Strip(Get(descricao)))) ELSE None,
     sigla |-> IF IsSome(sigla) THEN Some(Upper(Strip(Get(sigla)))) ELSE None]

(* models/pais.py: the row inserted by db.add(Pais(...)) and commit.       *)
PaisRow(data, t) ==
    [descricao |-> data.descricao, sigla |-> data.sigla,
     dt_criacao |-> t, dt_atualizacao |-> t, dt_exclusao |-> None]

(* services/pais.py                                                        *)
\* get_by_id: the row, or None for a missing or soft-deleted id.
PaisGetById(tbl, id) ==
    IF id \in 1..Len(tbl) /\ tbl[id].dt_exclusao = None THEN Some(tbl[id]) ELSE None

\* get_all: ids of the rows returned (skip = 0, limit above the table size).
PaisGetAll(tbl) == {i \in 1..Len(tbl) : tbl[i].dt_exclusao = None}

\* A duplicate query that compares the code only.
PaisDuplicateRowsSiglaOnly(tbl, descricao, sigla, exclude_id) ==
    {i \in 1..Len(tbl) :
        /\ Lower(tbl[i].sigla) = Lower(sigla)
        /\ tbl[i].dt_exclusao = None
        /\ (IsSome(exclude_id) => i # Get(exclude_id))}

\* Rows the duplicate query selects.
PaisDuplicateRows(tbl, descricao, sigla, exclude_id) ==
    {i \in 1..Len(tbl) :
        /\ \/ Lower(tbl[i].descricao) = Lower(descricao)
           \/ Lower(tbl[i].sigla) = Lower(sigla)
        /\ tbl[i].dt_exclusao = None
        /\ (IsSome(exclude_id) => i # Get(exclude_id))}

\* check_duplicate: the set of results it can return.  .first() of a query
\* without ORDER BY is any selected row.
PaisCheckDuplicate(tbl, descricao, sigla, exclude_id) ==
    LET rows == PaisDuplicateRows(tbl, descricao, sigla, exclude_id) IN
    IF rows = {} THEN {[dup |-> FALSE, msg |-> ""]}
    ELSE {[dup |-> TRUE,
           msg |-> IF Lower(tbl[i].descricao) = Lower(descricao) THEN "nome" ELSE "sigla"]
          : i \in rows}

PaisCreateStep(tbl, data, t) ==
    {IF chk.dup
     THEN Step(tbl, Outcome("message", 0, chk.msg))
     ELSE Step(Append(tbl, PaisRow(data, t)), Outcome("entity", Len(tbl) + 1, ""))
     : chk \in PaisCheckDuplicate(tbl, data.descricao, data.sigla, None)}

\* An update without the shortcut for a request that changes nothing.
PaisUpdateStepNoShortcut(tbl, id, data, t) ==
    LET cur == PaisGetById(tbl, id) IN
    IF cur = None THEN {Step(tbl, Outcome("none", id, ""))}
    ELSE LET p == Get(cur)
             descricao_to_check ==
                 IF IsSome(data.descricao) THEN Get(data.descricao) ELSE p.descricao
             sigla_to_check ==
                 IF IsSome(data.sigla) THEN Get(data.sigla) ELSE p.sigla
         IN {IF chk.dup
             THEN Step(tbl, Outcome("message", id, chk.msg))
             ELSE Step([tbl EXCEPT ![id] =
                          [@ EXCEPT !.descricao = descricao_to_check,
                                    !.sigla = sigla_to_check,
                                    !.dt_atualizacao = t]],
                       Outcome("entity", id, ""))
             : chk \in PaisCheckDuplicate(tbl, descricao_to_check,
                                          sigla_to_check, Some(id))}

PaisUpdateStep(tbl, id, data, t) ==
    LET cur == PaisGetById(tbl, id) IN
    IF cur = None THEN {Step(tbl, Outcome("none", id, ""))}
    ELSE LET p == Get(cur)
             descricao_to_check ==
                 IF IsSome(data.descricao) THEN Get(data.descricao) ELSE p.descricao
             sigla_to_check ==
                 IF IsSome(data.sigla) THEN Get(data.sigla) ELSE p.sigla
         IN
         IF /\ (data.descricao = None \/ Get(data.descricao) = p.descricao)
            /\ (data.sigla = None \/ Get(data.sigla) = p.sigla)
         THEN {Step(tbl, Outcome("entity", id, ""))}
         ELSE {IF chk.dup
               THEN Step(tbl, Outcome("message", id, chk.msg))
               ELSE Step([tbl EXCEPT ![id] =
                            [@ EXCEPT !.descricao = descricao_to_check,
                                      !.sigla = sigla_to_check,
                                      !.dt_atualizacao = t]],
                         Outcome("entity", id, ""))
               : chk \in PaisCheckDuplicate(tbl, descricao_to_check,
                                            sigla_to_check, Some(id))}

\* delete: the UPDATE that sets dt_exclusao also fires the column's
\* onupdate=func.now() on dt_atualizacao.
PaisDeleteStep(tbl, id, t) ==
    IF PaisGetById(tbl, id) = None THEN Step(tbl, Outcome("false", id, ""))
    ELSE Step([tbl EXCEPT ![id] =
                 [@ EXCEPT !.dt_exclusao = Some(t), !.dt_atualizacao = t]],
              Outcome("true", id, ""))

PaisCreate(rawDescricao, rawSigla) ==
    \E r \in PaisCreateStep(pais, PaisBase(rawDescricao, rawSigla), now) :
        /\ r.out.kind = "entity" => Rows < MaxRows /\ Len(pais) < MaxPerTable
        /\ pais' = r.tbl
        /\ UNCHANGED <<estado, cidade, userVars, now, authVars, pending>>

PaisUpdate(id, rawDescricao, rawSigla) ==
    \E r \in PaisUpdateStep(pais, id, UpdatePais(rawDescricao, rawSigla), now) :
        /\ pais' = r.tbl
        /\ UNCHANGED <<estado, cidade, userVars, now, authVars, pending>>

\* A delete that cascades to the states of the country.
PaisDeleteCascade(id) ==
    /\ pais' = PaisDeleteStep(pais, id, now).tbl
    /\ estado' = [e \in 1..Len(estado) |->
                    IF estado[e].pais_id = id /\ PaisGetById(pais, id) # None
                    THEN [estado[e] EXCEPT !.dt_exclusao = Some(now)]
                    ELSE estado[e]]
    /\ UNCHANGED <<cidade, userVars, now, authVars, pending>>

PaisDelete(id) ==
    /\ pais' = PaisDeleteStep(pais, id, now).tbl
    /\ UNCHANGED <<estado, cidade, userVars, now, authVars, pending>>

-----------------------------------------------------------------------------
(* schemas/estado.py                                                       *)
EstadoBase(pais_id, descricao, sigla) ==
    [pais_id |-> pais_id,
     descricao |-> Title(Strip(descricao)), sigla |-> Upper(Strip(sigla))]

UpdateEstado(pais_id, descricao, sigla) ==
    [pais_id |-> pais_id,
     descricao |-> IF IsSome(descricao) THEN Some(Title(Strip(Get(descricao)))) ELSE None,
     sigla |-> IF IsSome(sigla) THEN Some(Upper(Strip(Get(sigla)))) ELSE None]

(* models/estado.py                                                        *)
EstadoRow(data, t) ==
    [pais_id |-> data.pais_id, descricao |-> data.descricao, sigla |-> data.sigla,
     dt_criacao |-> t, dt_atualizacao |-> t, dt_exclusao |-> None]

\* A foreign key that would refuse a soft-deleted parent row.
EstadoForeignKeyOkLive(paisTbl, pais_id) ==
    pais_id \in 1..Len(paisTbl) /\ paisTbl[pais_id].dt_exclusao = None

\* ForeignKey("pais.id"): the store refuses a row whose parent row does not
\* exist; a soft-deleted parent row still exists.
EstadoForeignKeyOk(paisTbl, pais_id) == pais_id \in 1..Len(paisTbl)

(* services/estado.py                                                      *)
EstadoGetById(tbl, id) ==
    IF id \in 1..Len(tbl) /\ tbl[id].dt_exclusao = None THEN Some(tbl[id]) ELSE None

EstadoGetAll(tbl) == {i \in 1..Len(tbl) : tbl[i].dt_exclusao = None}

EstadoGetByPaisId(tbl, pais_id) ==
    {i \in 1..Len(tbl) : tbl[i].pais_id = pais_id /\ tbl[i].dt_exclusao = None}

\* A duplicate query that compares the name only.
EstadoDuplicateRowsNameOnly(tbl, pais_id, descricao, sigla, exclude_id) ==
    {i \in 1..Len(tbl) :
        /\ tbl[i].pais_id = pais_id
        /\ Lower(tbl[i].descricao) = Lower(descricao)
        /\ tbl[i].dt_exclusao = None
        /\ (IsSome(exclude_id) => i # Get(exclude_id))}

EstadoDuplicateRows(tbl, pais_id, descricao, sigla, exclude_id) ==
    {i \in 1..Len(tbl) :
        /\ tbl[i].pais_id = pais_id
        /\ \/ Lower(tbl[i].descricao) = Lower(descricao)
           \/ Lower(tbl[i].sigla) = Lower(sigla)
        /\ tbl[i].dt_exclusao = None
        /\ (IsSome(exclude_id) => i # Get(exclude_id))}

EstadoCheckDuplicate(tbl, pais_id, descricao, sigla, exclude_id) ==
    LET rows == EstadoDuplicateRows(tbl, pais_id, descricao, sigla, exclude_id) IN
    IF rows = {} THEN {[dup |-> FALSE, msg |-> ""]}
    ELSE {[dup |-> TRUE,
           msg |-> IF Lower(tbl[i].descricao) = Lower(descricao) THEN "nome" ELSE "sigla"]
          : i \in rows}

EstadoCreateStep(paisTbl, tbl, data, t) ==
    {IF chk.dup THEN Step(tbl, Outcome("message", 0, chk.msg))
     ELSE IF ~EstadoForeignKeyOk(paisTbl, data.pais_id)
     THEN Step(tbl, Outcome("fault", 0, ""))
     ELSE Step(Append(tbl, EstadoRow(data, t)), Outcome("entity", Len(tbl) + 1, ""))
     : chk \in EstadoCheckDuplicate(tbl, data.pais_id, data.descricao, data.sigla, None)}

EstadoUpdateStep(paisTbl, tbl, id, data, t) ==
    LET cur == EstadoGetById(tbl, id) IN
    IF cur = None THEN {Step(tbl, Outcome("none", id, ""))}
    ELSE LET e == Get(cur)
             pais_id_to_check ==
                 IF IsSome(data.pais_id) THEN Get(data.pais_id) ELSE e.pais_id
             descricao_to_check ==
                 IF IsSome(data.descricao) THEN Get(data.descricao) ELSE e.descricao
             sigla_to_check ==
                 IF IsSome(data.sigla) THEN Get(data.sigla) ELSE e.sigla
         IN
         IF /\ (data.pais_id = None \/ Get(data.pais_id) = e.pais_id)
            /\ (data.descricao = None \/ Get(data.descricao) = e.descricao)
            /\ (data.sigla = None \/ Get(data.sigla) = e.sigla)
         THEN {Step(tbl, Outcome("entity", id, ""))}
         ELSE {IF chk.dup THEN Step(tbl, Outcome("message", id, chk.msg))
               ELSE IF ~EstadoForeignKeyOk(paisTbl, pais_id_to_check)
               THEN Step(tbl, Outcome("fault", id, ""))
               ELSE Step([tbl EXCEPT ![id] =
                            [@ EXCEPT !.pais_id = pais_id_to_check,
                                      !.descricao = descricao_to_check,
                                      !.sigla = sigla_to_check,
                                      !.dt_atualizacao = t]],
                         Outcome("entity", id, ""))
               : chk \in EstadoCheckDuplicate(tbl, pais_id_to_check,
                            descricao_to_check, sigla_to_check, Some(id))}

EstadoDeleteStep(tbl, id, t) ==
    IF EstadoGetById(tbl, id) = None THEN Step(tbl, Outcome("false", id, ""))
    ELSE Step([tbl EXCEPT ![id] =
                 [@ EXCEPT !.dt_exclusao = Some(t), !.dt_atualizacao = t]],
              Outcome("true", id, ""))

EstadoCreate(pais_id, rawDescricao, rawSigla) ==
    \E r \in EstadoCreateStep(pais, estado,
                              EstadoBase(pais_id, rawDescricao, rawSigla), now) :
        /\ r.out.kind = "entity" => Rows < MaxRows /\ Len(estado) < MaxPerTable
        /\ estado' = r.tbl
        /\ UNCHANGED <<pais, cidade, userVars, now, authVars, pending>>

EstadoUpdate(id, pais_id, rawDescricao, rawSigla) ==
    \E r \in EstadoUpdateStep(pais, estado, id,
                              UpdateEstado(pais_id, rawDescricao, rawSigla), now) :
        /\ estado' = r.tbl
        /\ UNCHANGED <<pais, cidade, userVars, now, authVars, pending>>

EstadoDelete(id) ==
    /\ estado' = EstadoDeleteStep(estado, id, now).tbl
    /\ UNCHANGED <<pais, cidade, userVars, now, authVars, pending>>

-----------------------------------------------------------------------------
(* schemas/cidade.py                                                       *)
\* CidadeBase has a validator for descricao only: sigla is stored as sent.
CidadeBase(estado_id, descricao, sigla) ==
    [estado_id |-> estado_id, descricao |-> Title(Strip(descricao)), sigla |-> sigla]

\* UpdateCidade: sigla -> v.strip().upper() if v else None
UpdateCidade(estado_id, descricao, sigla) ==
    [estado_id |-> estado_id,
     descricao |-> IF IsSome(descricao) THEN Some(Title(Strip(Get(descricao)))) ELSE None,
     sigla |-> IF Truthy(sigla) THEN Some(Upper(Strip(Get(sigla)))) ELSE None]

(* models/cidade.py                                                        *)
CidadeRow(data, t) ==
    [estado_id |-> data.estado_id, descricao |-> data.descricao, sigla |-> data.sigla,
     dt_criacao |-> t, dt_atualizacao |-> t, dt_exclusao |-> None]

CidadeForeignKeyOk(estadoTbl, estado_id) == estado_id \in 1..Len(estadoTbl)

(* services/cidade.py                                                      *)
CidadeGetById(tbl, id) ==
    IF id \in 1..Len(tbl) /\ tbl[id].dt_exclusao = None THEN Some(tbl[id]) ELSE None

CidadeGetAll(tbl) == {i \in 1..Len(tbl) : tbl[i].dt_exclusao = None}

CidadeGetByEstadoId(tbl, estado_id) ==
    {i \in 1..Len(tbl) : tbl[i].estado_id = estado_id /\ tbl[i].dt_exclusao = None}

\* check_duplicate: one query for the name and, when sigla is truthy, a
\* second one for the sigla (a NULL column never equals a value).
CidadeCheckDuplicate(tbl, estado_id, descricao, sigla, exclude_id) ==
    LET sameName == {i \in 1..Len(tbl) :
            /\ tbl[i].estado_id = estado_id
            /\ Lower(tbl[i].descricao) = Lower(descricao)
            /\ tbl[i].dt_exclusao = None
            /\ (IsSome(exclude_id) => i # Get(exclude_id))}
        sameSigla == {i \in 1..Len(tbl) :
            /\ tbl[i].estado_id = estado_id
            /\ IsSome(tbl[i].sigla)
            /\ Lower(Get(tbl[i].sigla)) = Lower(Get(sigla))
            /\ tbl[i].dt_exclusao = None
            /\ (IsSome(exclude_id) => i # Get(exclude_id))}
    IN
    IF sameName # {} THEN {[dup |-> TRUE, msg |-> "nome"]}
    ELSE IF Truthy(sigla) /\ sameSigla # {} THEN {[dup |-> TRUE, msg |-> "sigla"]}
    ELSE {[dup |-> FALSE, msg |-> ""]}

CidadeCreateStep(estadoTbl, tbl, data, t) ==
    {IF chk.dup THEN Step(tbl, Outcome("message", 0, chk.msg))
     ELSE IF ~CidadeForeignKeyOk(estadoTbl, data.estado_id)
     THEN Step(tbl, Outcome("fault", 0, ""))
     ELSE Step(Append(tbl, CidadeRow(data, t)), Outcome("entity", Len(tbl) + 1, ""))
     : chk \in CidadeCheckDuplicate(tbl, data.estado_id, data.descricao, data.sigla, None)}

CidadeUpdateStep(estadoTbl, tbl, id, data, t) ==
    LET cur == CidadeGetById(tbl, id) IN
    IF cur = None THEN {Step(tbl, Outcome("none", id, ""))}
    ELSE LET c == Get(cur)
             estado_id_to_check ==
                 IF IsSome(data.estado_id) THEN Get(data.estado_id) ELSE c.estado_id
             descricao_to_check ==
                 IF IsSome(data.descricao) THEN Get(data.descricao) ELSE c.descricao
             sigla_to_check == IF IsSome(data.sigla) THEN data.sigla ELSE c.sigla
         IN
         IF /\ (data.estado_id = None \/ Get(data.estado_id) = c.estado_id)
            /\ (data.descricao = None \/ Get(data.descricao) = c.descricao)
            /\ (data.sigla = None \/ data.sigla = c.sigla)
         THEN {Step(tbl, Outcome("entity", id, ""))}
         ELSE {IF chk.dup THEN Step(tbl, Outcome("message", id, chk.msg))
               ELSE IF ~CidadeForeignKeyOk(estadoTbl, estado_id_to_check)
               THEN Step(tbl, Outcome("fault", id, ""))
               ELSE Step([tbl EXCEPT ![id] =
                            [@ EXCEPT !.estado_id = estado_id_to_check,
                                      !.descricao = descricao_to_check,
                                      !.sigla = sigla_to_check,
                                      !.dt_atualizacao = t]],
                         Outcome("entity", id, ""))
               : chk \in CidadeCheckDuplicate(tbl, estado_id_to_check,
                            descricao_to_check, sigla_to_check, Some(id))}

CidadeDeleteStep(tbl, id, t) ==
    IF CidadeGetById(tbl, id) = None THEN Step(tbl, Outcome("false", id, ""))
    ELSE Step([tbl EXCEPT ![id] =
                 [@ EXCEPT !.dt_exclusao = Some(t), !.dt_atualizacao = t]],
              Outcome("true", id, ""))

CidadeCreate(estado_id, rawDescricao, rawSigla) ==
    \E r \in CidadeCreateStep(estado, cidade,
                              CidadeBase(estado_id, rawDescricao, rawSigla), now) :
        /\ r.out.kind = "entity" => Rows < MaxRows /\ Len(cidade) < MaxPerTable
        /\ cidade' = r.tbl
        /\ UNCHANGED <<pais, estado, userVars, now, authVars, pending>>

CidadeUpdate(id, estado_id, rawDescricao, rawSigla) ==
    \E r \in CidadeUpdateStep(estado, cidade, id,
                              UpdateCidade(estado_id, rawDescricao, rawSigla), now) :
        /\ cidade' = r.tbl
        /\ UNCHANGED <<pais, estado, userVars, now, authVars, pending>>

CidadeDelete(id) ==
    /\ cidade' = CidadeDeleteStep(cidade, id, now).tbl
    /\ UNCHANGED <<pais, estado, userVars, now, authVars, pending>>

-----------------------------------------------------------------------------
(* schemas/perfil.py, models/perfil.py, services/perfil.py                 *)
\* Further outcome kinds: "conflict" (ValueError: duplicate), "invalid"
\* (ValueError: wrong current password).
PerfilBase(descricao) == [descricao |-> Title(Strip(descricao))]

\* UpdatePerfil, then the route's filter of the None values.
UpdatePerfil(descricao) ==
    [descricao |-> IF IsSome(descricao) THEN Some(Title(Strip(Get(descricao)))) ELSE None]

PerfilRow(data, t) ==
    [descricao |-> data.descricao,
     dt_criacao |-> t, dt_atualizacao |-> t, dt_exclusao |-> None]

PerfilGetById(tbl, id) ==
    IF id \in 1..Len(tbl) /\ tbl[id].dt_exclusao = None THEN Some(tbl[id]) ELSE None

PerfilGetAll(tbl) == {i \in 1..Len(tbl) : tbl[i].dt_exclusao = None}

\* A lookup by description that also sees soft-deleted profiles.
PerfilGetByDescricaoDeleted(tbl, descricao) ==
    {i \in 1..Len(tbl) : Lower(tbl[i].descricao) = Lower(descricao)}

\* get_by_descricao: the ids .first() can return; {} stands for None.
PerfilGetByDescricao(tbl, descricao) ==
    {i \in 1..Len(tbl) :
        Lower(tbl[i].descricao) = Lower(descricao) /\ tbl[i].dt_exclusao = None}

PerfilCreateStep(tbl, data, t) ==
    IF PerfilGetByDescricao(tbl, data.descricao) # {}
    THEN Step(tbl, Outcome("conflict", 0, "descricao"))
    ELSE Step(Append(tbl, PerfilRow(data, t)), Outcome("entity", Len(tbl) + 1, ""))

\* An update that writes without looking for another profile of the same
\* description.
PerfilUpdateStepNoCheck(tbl, id, data, t) ==
    IF data.descricao = None
    THEN {Step(tbl, Outcome(IF PerfilGetById(tbl, id) = None THEN "none" ELSE "entity",
                            id, ""))}
    ELSE IF PerfilGetById(tbl, id) = None THEN {Step(tbl, Outcome("none", id, ""))}
    ELSE {Step([tbl EXCEPT ![id] = [@ EXCEPT !.descricao = Get(data.descricao),
                                             !.dt_atualizacao = t]],
               Outcome("entity", id, ""))}

\* update_perfil: without any field the route answers with get_by_id.
PerfilUpdateStep(tbl, id, data, t) ==
    IF data.descricao = None
    THEN {Step(tbl, Outcome(IF PerfilGetById(tbl, id) = None THEN "none" ELSE "entity",
                            id, ""))}
    ELSE IF PerfilGetById(tbl, id) = None THEN {Step(tbl, Outcome("none", id, ""))}
    ELSE LET found == IF Get(data.descricao) # tbl[id].descricao
                      THEN PerfilGetByDescricao(tbl, Get(data.descricao)) ELSE {}
             written == [tbl EXCEPT ![id] =
                            [@ EXCEPT !.descricao = Get(data.descricao),
                                      !.dt_atualizacao = t]]
         IN \* existing_perfil, 0 standing for None
            {IF existing # 0 /\ existing # id
             THEN Step(tbl, Outcome("conflict", id, "descricao"))
             ELSE Step(written, Outcome("entity", id, ""))
             : existing \in IF found = {} THEN {0} ELSE found}

PerfilDeleteStep(tbl, id, t) ==
    IF PerfilGetById(tbl, id) = None THEN Step(tbl, Outcome("false", id, ""))
    ELSE Step([tbl EXCEPT ![id] =
                 [@ EXCEPT !.dt_exclusao = Some(t), !.dt_atualizacao = t]],
              Outcome("true", id, ""))

-----------------------------------------------------------------------------
(* schemas/endereco.py, models/endereco.py, services/endereco.py           *)
\* formatar_cep: the digits, as NNNNN-NNN when there are eight of them.
FormatarCep(v) ==
    LET cep_limpo == Digits(v) IN
    IF Len(cep_limpo) = 8
    THEN SubSeq(cep_limpo, 1, 5) \o <<"-">> \o SubSeq(cep_limpo, 6, 8)
    ELSE cep_limpo

EnderecoBase(cidade_id, cep, complemento) ==
    [cidade_id |-> cidade_id,
     cep |-> IF IsSome(cep) THEN Some(FormatarCep(Get(cep))) ELSE None,
     complemento |-> complemento]

\* UpdateEndereco.dict(): every field, the ones not sent as None.
UpdateEndereco(cidade_id, cep, complemento) ==
    [cidade_id |-> cidade_id,
     cep |-> IF IsSome(cep) THEN Some(FormatarCep(Get(cep))) ELSE None,
     complemento |-> complemento]

EnderecoRow(data, t) ==
    [cidade_id |-> data.cidade_id, cep |-> data.cep, complemento |-> data.complemento,
     dt_criacao |-> t, dt_atualizacao |-> t, dt_exclusao |-> None]

\* What the table accepts: ForeignKey("cidade.id") and nullable=False on
\* cep and complemento.
EnderecoStorageOk(cidadeTbl, row) ==
    /\ row.cidade_id \in 1..Len(cidadeTbl)
    /\ IsSome(row.cep)
    /\ IsSome(row.complemento)

\* get_by_id and get_all build selectinload(Endereco.estado); the model has
\* no attribute estado, so both raise before any query is sent.
EnderecoGetById(tbl, id) == Outcome("fault", id, "")
EnderecoGetAll(tbl) == Outcome("fault", 0, "")

\* create commits the row and then fails in get_by_id.
EnderecoCreateStep(cidadeTbl, tbl, data, t) ==
    IF EnderecoStorageOk(cidadeTbl, EnderecoRow(data, t))
    THEN Step(Append(tbl, EnderecoRow(data, t)), EnderecoGetById(tbl, Len(tbl) + 1))
    ELSE Step(tbl, Outcome("fault", 0, ""))

\* update and delete start with get_by_id.
EnderecoUpdateStep(cidadeTbl, tbl, id, data, t) ==
    LET got == EnderecoGetById(tbl, id)
        row == [tbl[id] EXCEPT !.cidade_id = data.cidade_id, !.cep = data.cep,
                               !.complemento = data.complemento,
                               !.dt_atualizacao = t]
    IN
    IF got.kind = "fault" THEN Step(tbl, got)
    ELSE IF got.kind = "none" THEN Step(tbl, Outcome("none", id, ""))
    ELSE IF ~EnderecoStorageOk(cidadeTbl, row) THEN Step(tbl, Outcome("fault", id, ""))
    ELSE Step([tbl EXCEPT ![id] = row], EnderecoGetById(tbl, id))

EnderecoDeleteStep(tbl, id, t) ==
    LET got == EnderecoGetById(tbl, id) IN
    IF got.kind = "fault" THEN Step(tbl, got)
    ELSE IF got.kind = "none" THEN Step(tbl, Outcome("false", id, ""))
    ELSE Step([tbl EXCEPT ![id] =
                 [@ EXCEPT !.dt_exclusao = Some(t), !.dt_atualizacao = t]],
              Outcome("true", id, ""))

-----------------------------------------------------------------------------
(* schemas/usuario.py                                                      *)
\* formatar_cpf_cnpj
FormatarCpfCnpj(v) ==
    LET numeros == Digits(v) IN
    IF Len(numeros) = 11
    THEN SubSeq(numeros, 1, 3) \o <<".">> \o SubSeq(numeros, 4, 6) \o <<".">>
         \o SubSeq(numeros, 7, 9) \o <<"-">> \o SubSeq(numeros, 10, 11)
    ELSE IF Len(numeros) = 14
    THEN SubSeq(numeros, 1, 2) \o <<".">> \o SubSeq(numeros, 3, 5) \o <<".">>
         \o SubSeq(numeros, 6, 8) \o <<"/">> \o SubSeq(numeros, 9, 12) \o <<"-">>
         \o SubSeq(numeros, 13, 14)
    ELSE numeros

\* formatar_telefone
FormatarTelefone(v) ==
    LET numeros == Digits(v) IN
    IF Len(numeros) = 10
    THEN <<"(">> \o SubSeq(numeros, 1, 2) \o <<")", " ">> \o SubSeq(numeros, 3, 6)
         \o <<"-">> \o SubSeq(numeros, 7, 10)
    ELSE IF Len(numeros) = 11
    THEN <<"(">> \o SubSeq(numeros, 1, 2) \o <<")", " ">> \o SubSeq(numeros, 3, 3)
         \o <<" ">> \o SubSeq(numeros, 4, 7) \o <<"-">> \o SubSeq(numeros, 8, 11)
    ELSE numeros

\* EmailStr: the validated address, its domain lower-cased.
EmailStr(v) ==
    LET ats == {i \in 1..Len(v) : v[i] = "@"}
        at == IF ats = {} THEN Len(v) ELSE CHOOSE i \in ats : \A j \in ats : j <= i
    IN [i \in 1..Len(v) |-> IF i > at THEN LowerChar(v[i]) ELSE v[i]]

\* The validators leave None as it is.
OptEmailStr(o) == IF IsSome(o) THEN Some(EmailStr(Get(o))) ELSE None
OptTelefone(o) == IF IsSome(o) THEN Some(FormatarTelefone(Get(o))) ELSE None
OptNome(o) == IF IsSome(o) THEN Some(CapitalizeWords(Get(o))) ELSE None

\* CreateUsuario(...).dict(): endereco is an EnderecoBase record.
CreateUsuario(endereco_, perfil_id, cpf_cnpj, nome, email, telefone, whatsapp, senha) ==
    [endereco |-> endereco_, perfil_id |-> perfil_id,
     cpf_cnpj |-> FormatarCpfCnpj(cpf_cnpj), nome |-> CapitalizeWords(nome),
     email |-> OptEmailStr(email),
     telefone |-> OptTelefone(telefone),
     whatsapp |-> OptTelefone(whatsapp), senha |-> senha]

\* UpdateUsuario(...).dict() after the route dropped the None values: a
\* field that is None here is absent from usuario_data.
UpdateUsuario(endereco_, perfil_id, nome, email, telefone, whatsapp, senha) ==
    [endereco |-> endereco_, perfil_id |-> perfil_id,
     nome |-> OptNome(nome), email |-> OptEmailStr(email),
     telefone |-> OptTelefone(telefone),
     whatsapp |-> OptTelefone(whatsapp), senha |-> senha]

-----------------------------------------------------------------------------
(* services/usuario.py: credentials                                        *)
\* bcrypt.gensalt(): a fresh random salt.
Salts == {"salt-1", "salt-2"}

\* bcrypt reads the first 72 bytes of the password and ignores the rest.
BcryptMaxBytes == 72

\* _hash_password with the salt drawn: the stored text stands for
\* bcrypt.hashpw(senha.encode('utf-8'), salt), which embeds the salt and
\* digests the bytes bcrypt reads (the model's characters are one byte
\* each); digest is read by _verify_password only.
HashPassword(senha, salt) ==
    [alg |-> "bcrypt", salt |-> salt,
     digest |-> SubSeq(senha, 1, IF Len(senha) < BcryptMaxBytes THEN Len(senha)
                                 ELSE BcryptMaxBytes)]

\* A password column written without hashing.
Plaintext(senha) == [alg |-> "plain", salt |-> "", digest |-> senha]

\* _verify_password: bcrypt.checkpw re-hashes senha_plana with the salt of
\* senha_hash and compares; it raises on a text that is not a bcrypt hash.
VerifyPassword(senha_plana, senha_hash) ==
    IF senha_hash.alg # "bcrypt" THEN "fault"
    ELSE IF HashPassword(senha_plana, senha_hash.salt) = senha_hash THEN "true"
    ELSE "false"

-----------------------------------------------------------------------------
(* models/usuario.py, services/usuario.py                                  *)
UsuarioRow(data, endereco_id, senha_hash, t) ==
    [endereco_id |-> endereco_id, perfil_id |-> data.perfil_id,
     cpf_cnpj |-> data.cpf_cnpj, senha |-> senha_hash, nome |-> data.nome,
     email |-> data.email, telefone |-> data.telefone, whatsapp |-> data.whatsapp,
     dt_criacao |-> t, dt_atualizacao |-> t, dt_exclusao |-> None]

\* Unique constraints that would skip the soft-deleted rows.
UsuarioStorageOkLiveOnly(perfilTbl, enderecoTbl, tbl, row, self) ==
    /\ row.perfil_id \in 1..Len(perfilTbl)
    /\ row.endereco_id \in 1..Len(enderecoTbl)
    /\ IsSome(row.email)
    /\ IsSome(row.telefone)
    /\ \A j \in 1..Len(tbl) :
          j # self /\ tbl[j].dt_exclusao = None =>
             /\ tbl[j].cpf_cnpj # row.cpf_cnpj
             /\ Lower(Get(tbl[j].email)) # Lower(Get(row.email))

\* What the table accepts for row number self: the foreign keys, the
\* nullable=False columns the schema leaves optional, and unique=True on
\* cpf_cnpj and email, which count soft-deleted rows too (the email under
\* the store's case-insensitive collation).
UsuarioStorageOk(perfilTbl, enderecoTbl, tbl, row, self) ==
    /\ row.perfil_id \in 1..Len(perfilTbl)
    /\ row.endereco_id \in 1..Len(enderecoTbl)
    /\ IsSome(row.email)
    /\ IsSome(row.telefone)
    /\ \A j \in 1..Len(tbl) :
          j # self =>
             /\ tbl[j].cpf_cnpj # row.cpf_cnpj
             /\ Lower(Get(tbl[j].email)) # Lower(Get(row.email))

UsuarioGetById(tbl, id) ==
    IF id \in 1..Len(tbl) /\ tbl[id].dt_exclusao = None THEN Some(tbl[id]) ELSE None

UsuarioGetAll(tbl) == {i \in 1..Len(tbl) : tbl[i].dt_exclusao = None}

\* A lookup by the tax id as written only, without the comparison of digits.
UsuarioGetByCpfCnpjExact(tbl, cpf_cnpj) ==
    {i \in UsuarioGetAll(tbl) : tbl[i].cpf_cnpj = cpf_cnpj}

\* get_by_cpf_cnpj: the ids it can return, {} standing for None.  The exact
\* match comes first; otherwise any non-deleted user with the same digits.
UsuarioGetByCpfCnpj(tbl, cpf_cnpj) ==
    LET exact == {i \in UsuarioGetAll(tbl) : tbl[i].cpf_cnpj = cpf_cnpj}
        numerico == {i \in UsuarioGetAll(tbl) : Digits(tbl[i].cpf_cnpj) = Digits(cpf_cnpj)}
    IN IF exact # {} THEN exact ELSE numerico

\* get_by_email
UsuarioGetByEmail(tbl, email) ==
    IF email = <<>> THEN {}
    ELSE {i \in UsuarioGetAll(tbl) : Lower(Get(tbl[i].email)) = Lower(email)}

\* find_user_by_credential
UsuarioFindByCredential(tbl, credential) ==
    IF UsuarioGetByCpfCnpj(tbl, credential) # {}
    THEN UsuarioGetByCpfCnpj(tbl, credential)
    ELSE UsuarioGetByEmail(tbl, credential)

\* authenticate_user: the outcomes it can have.
UsuarioAuthenticate(tbl, cpf_cnpj, senha) ==
    IF UsuarioGetByCpfCnpj(tbl, cpf_cnpj) = {} THEN {Outcome("none", 0, "")}
    ELSE {LET v == VerifyPassword(senha, tbl[i].senha) IN
          IF v = "fault" THEN Outcome("fault", i, "")
          ELSE IF v = "false" THEN Outcome("none", 0, "")
          ELSE Outcome("entity", i, "")
          : i \in UsuarioGetByCpfCnpj(tbl, cpf_cnpj)}

\* A step over the two tables a user operation writes.
UStep(enderecoTbl, tbl, out) == [endereco |-> enderecoTbl, usuario |-> tbl, out |-> out]

\* A create whose flushed address stays when the insert of the user fails.
UsuarioCreateStepNoRollback(perfilTbl, cidadeTbl, enderecoTbl, tbl, data, t) ==
    LET endRow == EnderecoRow(data.endereco, t)
        unchanged(kind, msg) == UStep(enderecoTbl, tbl, Outcome(kind, 0, msg))
    IN
    IF UsuarioGetByCpfCnpj(tbl, data.cpf_cnpj) # {}
    THEN {unchanged("conflict", "cpf_cnpj")}
    ELSE IF Truthy(data.email) /\ UsuarioGetByEmail(tbl, Get(data.email)) # {}
    THEN {unchanged("conflict", "email")}
    ELSE IF ~EnderecoStorageOk(cidadeTbl, endRow) THEN {unchanged("fault", "")}
    ELSE {LET row == UsuarioRow(data, Len(enderecoTbl) + 1,
                                HashPassword(data.senha, salt), t)
          IN IF UsuarioStorageOk(perfilTbl, Append(enderecoTbl, endRow), tbl, row, 0)
             THEN UStep(Append(enderecoTbl, endRow), Append(tbl, row),
                        Outcome("entity", Len(tbl) + 1, ""))
             ELSE UStep(Append(enderecoTbl, endRow), tbl, Outcome("fault", 0, ""))
          : salt \in Salts}

\* create: the address is flushed first, the user committed with it; a
\* failure closes the session, which rolls both back.
UsuarioCreateStep(perfilTbl, cidadeTbl, enderecoTbl, tbl, data, t) ==
    LET endRow == EnderecoRow(data.endereco, t)
        unchanged(kind, msg) == UStep(enderecoTbl, tbl, Outcome(kind, 0, msg))
    IN
    IF UsuarioGetByCpfCnpj(tbl, data.cpf_cnpj) # {}
    THEN {unchanged("conflict", "cpf_cnpj")}
    ELSE IF Truthy(data.email) /\ UsuarioGetByEmail(tbl, Get(data.email)) # {}
    THEN {unchanged("conflict", "email")}
    ELSE IF ~EnderecoStorageOk(cidadeTbl, endRow) THEN {unchanged("fault", "")}
    ELSE {LET row == UsuarioRow(data, Len(enderecoTbl) + 1,
                                HashPassword(data.senha, salt), t)
          IN IF UsuarioStorageOk(perfilTbl, Append(enderecoTbl, endRow), tbl, row, 0)
             THEN UStep(Append(enderecoTbl, endRow), Append(tbl, row),
                        Outcome("entity", Len(tbl) + 1, ""))
             ELSE unchanged("fault", "")
          : salt \in Salts}

UsuarioDeleteStep(tbl, id, t) ==
    IF UsuarioGetById(tbl, id) = None THEN Step(tbl, Outcome("false", id, ""))
    ELSE Step([tbl EXCEPT ![id] =
                 [@ EXCEPT !.dt_exclusao = Some(t), !.dt_atualizacao = t]],
              Outcome("true", id, ""))

\* An update whose statement on the address stays when the statement on the
\* user fails: the session is not rolled back.
UsuarioUpdateStepPartial(perfilTbl, cidadeTbl, enderecoTbl, tbl, id, data, t) ==
    IF UsuarioGetById(tbl, id) = None
    THEN {UStep(enderecoTbl, tbl, Outcome("none", id, ""))}
    ELSE
    LET db_usuario == tbl[id]
        unchanged(kind, msg) == UStep(enderecoTbl, tbl, Outcome(kind, id, msg))
        existing_email ==
            IF Truthy(data.email) /\ data.email # db_usuario.email
            THEN UsuarioGetByEmail(tbl, Get(data.email)) ELSE {}
        endRow == [enderecoTbl[db_usuario.endereco_id] EXCEPT
                      !.cidade_id = Get(data.endereco).cidade_id,
                      !.cep = Get(data.endereco).cep,
                      !.complemento = Get(data.endereco).complemento,
                      !.dt_atualizacao = t]
        endTbl == IF IsSome(data.endereco)
                  THEN [enderecoTbl EXCEPT ![db_usuario.endereco_id] = endRow]
                  ELSE enderecoTbl
        row(salt) ==
            [db_usuario EXCEPT
                !.perfil_id = IF IsSome(data.perfil_id) THEN Get(data.perfil_id) ELSE @,
                !.nome = IF IsSome(data.nome) THEN Get(data.nome) ELSE @,
                !.email = IF IsSome(data.email) THEN data.email ELSE @,
                !.telefone = IF IsSome(data.telefone) THEN data.telefone ELSE @,
                !.whatsapp = IF IsSome(data.whatsapp) THEN data.whatsapp ELSE @,
                !.senha = IF ~IsSome(data.senha) THEN @
                          ELSE IF Get(data.senha) # <<>>
                          THEN HashPassword(Get(data.senha), salt)
                          ELSE Plaintext(Get(data.senha)),
                !.dt_atualizacao = t]
    IN
    IF \E j \in existing_email : j # id THEN {unchanged("conflict", "email")}
    ELSE IF IsSome(data.endereco) /\ ~EnderecoStorageOk(cidadeTbl, endRow)
    THEN {unchanged("fault", "")}
    ELSE {IF UsuarioStorageOk(perfilTbl, endTbl, tbl, row(salt), id)
          THEN UStep(endTbl, [tbl EXCEPT ![id] = row(salt)], Outcome("entity", id, ""))
          ELSE UStep(endTbl, tbl, Outcome("fault", id, ""))
          : salt \in Salts}

\* update, called by update_usuario with the fields that were sent (a field
\* that is None in data is absent from usuario_data; UpdateUsuario has no
\* cpf_cnpj).  The address dict keeps its None values and overwrites the
\* row of the user's address; a failure rolls everything back.
UsuarioUpdateStep(perfilTbl, cidadeTbl, enderecoTbl, tbl, id, data, t) ==
    IF UsuarioGetById(tbl, id) = None
    THEN {UStep(enderecoTbl, tbl, Outcome("none", id, ""))}
    ELSE
    LET db_usuario == tbl[id]
        unchanged(kind, msg) == UStep(enderecoTbl, tbl, Outcome(kind, id, msg))
        existing_email ==
            IF Truthy(data.email) /\ data.email # db_usuario.email
            THEN UsuarioGetByEmail(tbl, Get(data.email)) ELSE {}
        endRow == [enderecoTbl[db_usuario.endereco_id] EXCEPT
                      !.cidade_id = Get(data.endereco).cidade_id,
                      !.cep = Get(data.endereco).cep,
                      !.complemento = Get(data.endereco).complemento,
                      !.dt_atualizacao = t]
        endTbl == IF IsSome(data.endereco)
                  THEN [enderecoTbl EXCEPT ![db_usuario.endereco_id] = endRow]
                  ELSE enderecoTbl
        row(salt) ==
            [db_usuario EXCEPT
                !.perfil_id = IF IsSome(data.perfil_id) THEN Get(data.perfil_id) ELSE @,
                !.nome = IF IsSome(data.nome) THEN Get(data.nome) ELSE @,
                !.email = IF IsSome(data.email) THEN data.email ELSE @,
                !.telefone = IF IsSome(data.telefone) THEN data.telefone ELSE @,
                !.whatsapp = IF IsSome(data.whatsapp) THEN data.whatsapp ELSE @,
                !.senha = IF ~IsSome(data.senha) THEN @
                          ELSE IF Get(data.senha) # <<>>
                          THEN HashPassword(Get(data.senha), salt)
                          ELSE Plaintext(Get(data.senha)),
                !.dt_atualizacao = t]
    IN
    IF \E j \in existing_email : j # id THEN {unchanged("conflict", "email")}
    ELSE IF IsSome(data.endereco) /\ ~EnderecoStorageOk(cidadeTbl, endRow)
    THEN {unchanged("fault", "")}
    ELSE {IF UsuarioStorageOk(perfilTbl, endTbl, tbl, row(salt), id)
          THEN UStep(endTbl, [tbl EXCEPT ![id] = row(salt)], Outcome("entity", id, ""))
          ELSE unchanged("fault", "")
          : salt \in Salts}

\* A change of password that does not look at the current one.
ChangePasswordStepNoVerify(tbl, id, senha_atual, nova_senha, t) ==
    IF UsuarioGetById(tbl, id) = None THEN {Step(tbl, Outcome("false", id, ""))}
    ELSE {Step([tbl EXCEPT ![id] = [@ EXCEPT !.senha = HashPassword(nova_senha, salt),
                                             !.dt_atualizacao = t]],
               Outcome("true", id, ""))
          : salt \in Salts}

\* change_password
ChangePasswordStep(tbl, id, senha_atual, nova_senha, t) ==
    IF UsuarioGetById(tbl, id) = None THEN {Step(tbl, Outcome("false", id, ""))}
    ELSE IF VerifyPassword(senha_atual, tbl[id].senha) = "fault"
    THEN {Step(tbl, Outcome("fault", id, ""))}
    ELSE IF VerifyPassword(senha_atual, tbl[id].senha) = "false"
    THEN {Step(tbl, Outcome("conflict", id, "senha"))}
    ELSE {Step([tbl EXCEPT ![id] = [@ EXCEPT !.senha = HashPassword(nova_senha, salt),
                                             !.dt_atualizacao = t]],
               Outcome("true", id, ""))
          : salt \in Salts}

\* reset_password
ResetPasswordStep(tbl, id, nova_senha, t) ==
    IF UsuarioGetById(tbl, id) = None THEN {Step(tbl, Outcome("false", id, ""))}
    ELSE {Step([tbl EXCEPT ![id] = [@ EXCEPT !.senha = HashPassword(nova_senha, salt),
                                             !.dt_atualizacao = t]],
               Outcome("true", id, ""))
          : salt \in Salts}

-----------------------------------------------------------------------------
(* services/usuario.py: password-reset tokens.  Instants are minutes; the  *)
(* clock now is the true UTC time, which is also the epoch time.           *)
\* timedelta(minutes=10)
TokenMinutes == 10

SecretKey == "funntour-app-secret-key"

\* secrets.token_hex(8)
Jtis == {"jti-1", "jti-2"}

\* datetime.utcnow(): the UTC wall time, as a naive datetime.
UtcNow(t) == t

\* naive.timestamp(): a naive datetime is read as local time, so the epoch
\* time is the naive value less the local utcoffset.
Timestamp(naive, utcoffset) == naive - utcoffset

\* datetime.fromtimestamp(ts): the naive local time of an epoch time.
FromTimestamp(ts, utcoffset) == ts + utcoffset

\* jwt.encode(token_data, key): the claims and the key that signed them.
JwtEncode(token_data, key) ==
    [sub |-> token_data.sub, exp |-> token_data.exp, jti |-> token_data.jti, key |-> key]

\* jwt.decode(token, key): the claims the token carries, or an error
\* (PyJWTError) for a text that is not a token, for a wrong signature or for
\* an exp that is not after the epoch time of the call; a token without exp
\* is not checked for expiry.
JwtDecode(token, key, t) ==
    IF token.key # key THEN None
    ELSE IF "exp" \in DOMAIN token /\ token.exp <= t THEN None
    ELSE Some([c \in DOMAIN token \ {"key"} |-> token[c]])

\* datetime.fromtimestamp(ts) raises ValueError past the last year a
\* datetime holds, and OverflowError or OSError past the epoch times the
\* platform converts.
MaxDatetime == 1000
MaxPlatformTime == 2000

\* generate_password_reset_token: what it can return, None for no user.
GeneratePasswordResetToken(tbl, credential, t, utcoffset) ==
    IF UsuarioFindByCredential(tbl, credential) = {} THEN {None}
    ELSE {LET expiration == UtcNow(t) + TokenMinutes
              token_data == [sub |-> i, exp |-> Timestamp(expiration, utcoffset),
                             jti |-> j]
          IN Some([token |-> JwtEncode(token_data, SecretKey), usuario |-> i,
                   expira_em |-> expiration])
          : i \in UsuarioFindByCredential(tbl, credential), j \in Jtis}

\* verify_password_reset_token lets an exception escape: its handler
\* names jwt.PyJWTError, ValueError and KeyError only.
VerifyPasswordResetTokenRaises(token, t, utcoffset) ==
    LET payload == JwtDecode(token, SecretKey, t) IN
    /\ payload # None
    /\ "exp" \in DOMAIN Get(payload)
    /\ Get(payload).exp > MaxPlatformTime

\* verify_password_reset_token, when it returns: the user id, or None.
VerifyPasswordResetToken(token, t, utcoffset) ==
    LET payload == JwtDecode(token, SecretKey, t) IN
    IF payload = None THEN None
    ELSE IF "exp" \notin DOMAIN Get(payload) THEN None
    ELSE IF Get(payload).exp > MaxDatetime THEN None
    ELSE IF UtcNow(t) > FromTimestamp(Get(payload).exp, utcoffset) THEN None
    ELSE IF "sub" \notin DOMAIN Get(payload) THEN None
    ELSE Some(Get(payload).sub)

\* reset_password_with_token (routes/auth.py): 400 for a token that does not
\* verify, 404 when reset_password finds no user, 500 for an exception.
ResetPasswordWithTokenStep(tbl, token, nova_senha, t, utcoffset) ==
    LET usuario_id == VerifyPasswordResetToken(token, t, utcoffset) IN
    IF VerifyPasswordResetTokenRaises(token, t, utcoffset)
    THEN {Step(tbl, Outcome("fault", 0, ""))}
    ELSE IF usuario_id = None THEN {Step(tbl, Outcome("invalid", 0, ""))}
    ELSE ResetPasswordStep(tbl, Get(usuario_id), nova_senha, t)

-----------------------------------------------------------------------------
(* Requests to the profile, address and user registries.                   *)
PerfilCreate(rawDescricao) ==
    LET r == PerfilCreateStep(perfil, PerfilBase(rawDescricao), now) IN
    /\ r.out.kind = "entity" => Len(perfil) < MaxPerTable
    /\ perfil' = r.tbl
    /\ UNCHANGED <<geoVars, endereco, usuario, now, authVars, pending>>

PerfilUpdate(id, rawDescricao) ==
    \E r \in PerfilUpdateStep(perfil, id, UpdatePerfil(rawDescricao), now) :
        /\ perfil' = r.tbl
        /\ UNCHANGED <<geoVars, endereco, usuario, now, authVars, pending>>

PerfilDelete(id) ==
    /\ perfil' = PerfilDeleteStep(perfil, id, now).tbl
    /\ UNCHANGED <<geoVars, endereco, usuario, now, authVars, pending>>

EnderecoCreate(cidade_id, rawCep, complemento) ==
    LET r == EnderecoCreateStep(cidade, endereco,
                                EnderecoBase(cidade_id, rawCep, complemento), now) IN
    /\ r.tbl # endereco => Len(endereco) < MaxPerTable
    /\ endereco' = r.tbl
    /\ UNCHANGED <<geoVars, perfil, usuario, now, authVars, pending>>

EnderecoUpdate(id, cidade_id, rawCep, complemento) ==
    /\ endereco' = EnderecoUpdateStep(cidade, endereco, id,
                       UpdateEndereco(cidade_id, rawCep, complemento), now).tbl
    /\ UNCHANGED <<geoVars, perfil, usuario, now, authVars, pending>>

EnderecoDelete(id) ==
    /\ endereco' = EnderecoDeleteStep(endereco, id, now).tbl
    /\ UNCHANGED <<geoVars, perfil, usuario, now, authVars, pending>>

UsuarioCreate(data) ==
    \E r \in UsuarioCreateStep(perfil, cidade, endereco, usuario, data, now) :
        /\ r.out.kind = "entity" =>
              Len(usuario) < MaxPerTable /\ Len(endereco) < MaxPerTable
        /\ endereco' = r.endereco
        /\ usuario' = r.usuario
        /\ senhas' = IF r.out.kind = "entity" THEN Append(senhas, data.senha) ELSE senhas
        /\ UNCHANGED <<geoVars, perfil, now, tokens, tz, trocadas, pending>>

UsuarioDelete(id) ==
    /\ usuario' = UsuarioDeleteStep(usuario, id, now).tbl
    /\ UNCHANGED <<geoVars, perfil, endereco, now, authVars, pending>>

\* History kept for the properties: user id now has the password senha,
\* set after every token issued to that user so far.
PasswordSet(id, senha) ==
    /\ senhas' = [senhas EXCEPT ![id] = senha]
    /\ trocadas' = trocadas \cup {r \in tokens : r.usuario = id}

UsuarioUpdate(id, data) ==
    IF \A f \in DOMAIN data : data[f] = None
    THEN UNCHANGED vars
    ELSE \E r \in UsuarioUpdateStep(perfil, cidade, endereco, usuario, id, data, now) :
            /\ endereco' = r.endereco
            /\ usuario' = r.usuario
            /\ IF r.out.kind = "entity" /\ IsSome(data.senha)
               THEN PasswordSet(id, Get(data.senha))
               ELSE UNCHANGED <<senhas, trocadas>>
            /\ UNCHANGED <<geoVars, perfil, now, tokens, tz, pending>>

ChangePassword(id, senha_atual, nova_senha) ==
    \E r \in ChangePasswordStep(usuario, id, senha_atual, nova_senha, now) :
        /\ usuario' = r.tbl
        /\ IF r.out.kind = "true" THEN PasswordSet(id, nova_senha)
           ELSE UNCHANGED <<senhas, trocadas>>
        /\ UNCHANGED <<geoVars, perfil, endereco, now, tokens, tz, pending>>

ResetPassword(id, nova_senha) ==
    \E r \in ResetPasswordStep(usuario, id, nova_senha, now) :
        /\ usuario' = r.tbl
        /\ IF r.out.kind = "true" THEN PasswordSet(id, nova_senha)
           ELSE UNCHANGED <<senhas, trocadas>>
        /\ UNCHANGED <<geoVars, perfil, endereco, now, tokens, tz, pending>>

\* The tokens kept in the model.
MaxTokens == 1

\* What the mail server and the messaging API do with a notification: the
\* send succeeds, the send fails (send_email and send_whatsapp_message
\* answer False), or an exception leaves the collaborator.
Fates == {"sent", "refused", "raises"}

\* A notification service whose sends are not guarded: an exception of a
\* collaborator leaves send_password_reset_notifications.
SendPasswordResetNotificationsUnguarded(row, emailFate, whatsappFate) ==
    [email |-> Truthy(row.email) /\ emailFate = "sent",
     whatsapp |-> Truthy(row.whatsapp) /\ whatsappFate = "sent",
     attempted |-> {c \in {"email"} : Truthy(row.email)}
                   \cup {c \in {"whatsapp"} : Truthy(row.whatsapp)},
     raised |-> \/ Truthy(row.email) /\ emailFate = "raises"
                \/ Truthy(row.whatsapp) /\ whatsappFate = "raises"]

\* send_password_reset_notifications for the user row: the status of each
\* channel, the channels it tried, and whether an exception left it (each
\* send is inside try/except Exception).
SendPasswordResetNotifications(row, emailFate, whatsappFate) ==
    [email |-> Truthy(row.email) /\ emailFate = "sent",
     whatsapp |-> Truthy(row.whatsapp) /\ whatsappFate = "sent",
     attempted |-> {c \in {"email"} : Truthy(row.email)}
                   \cup {c \in {"whatsapp"} : Truthy(row.whatsapp)},
     raised |-> FALSE]

\* request_password_recovery (routes/auth.py): the responses it can give;
\* issued is the dev_info of the response, None when no user matches.
request_password_recovery(tbl, credential, t, utcoffset, emailFate, whatsappFate) ==
    {IF result = None
     THEN [status |-> 200,
           message |-> "Se o usuario existir, um token de recuperacao foi enviado",
           issued |-> None,
           notificacoes |-> [email |-> FALSE, whatsapp |-> FALSE, attempted |-> {},
                             raised |-> FALSE]]
     ELSE LET n == SendPasswordResetNotifications(tbl[Get(result).usuario],
                                                  emailFate, whatsappFate)
          IN IF n.raised
             THEN [status |-> 500, message |-> "Erro ao processar solicitacao",
                   issued |-> None, notificacoes |-> n]
             ELSE [status |-> 200, message |-> "Um token de recuperacao foi enviado",
                   issued |-> result, notificacoes |-> n]
     : result \in GeneratePasswordResetToken(tbl, credential, t, utcoffset)}

RequestPasswordRecovery(credential, emailFate, whatsappFate) ==
    \E resp \in request_password_recovery(usuario, credential, now, tz,
                                          emailFate, whatsappFate) :
        LET r == resp.issued IN
        /\ r # None => Cardinality(tokens \cup {Get(r)}) <= MaxTokens
        /\ tokens' = IF r = None THEN tokens ELSE tokens \cup {Get(r)}
        /\ UNCHANGED <<geoVars, userVars, now, tz, senhas, trocadas, pending>>

ResetPasswordWithToken(token, nova_senha) ==
    \E r \in ResetPasswordWithTokenStep(usuario, token, nova_senha, now, tz) :
        /\ usuario' = r.tbl
        /\ IF r.out.kind = "true" THEN PasswordSet(r.out.id, nova_senha)
           ELSE UNCHANGED <<senhas, trocadas>>
        /\ UNCHANGED <<geoVars, perfil, endereco, now, tokens, tz, pending>>

-----------------------------------------------------------------------------
(* Time passes between requests.                                           *)
Tick ==
    /\ now < MaxClock
    /\ now' = now + 1
    /\ UNCHANGED <<geoVars, userVars, authVars, pending>>

-----------------------------------------------------------------------------
(* The geographic registry, requests served one after another.             *)
\* Ids a request can name: those of the table and one that does not exist.
IdsOf(tbl) == 1..(Len(tbl) + 1)

\* The sessions that can be open at once.
MaxSessions == 2
Sessions == 1..MaxSessions

\* No token issued, no password set, no request in progress.
Quiet ==
    /\ tokens = {}
    /\ senhas = <<>>
    /\ trocadas = {}
    /\ pending = [s \in Sessions |-> None]

Init ==
    /\ pais = <<>>
    /\ estado = <<>>
    /\ cidade = <<>>
    /\ perfil = <<>>
    /\ endereco = <<>>
    /\ usuario = <<>>
    /\ now = 0
    /\ tz = 0
    /\ Quiet

Next ==
    \/ \E d \in RawNames, s \in RawSiglas : PaisCreate(d, s)
    \/ \E id \in IdsOf(pais), d \in OptOf(RawNames), s \in OptOf(RawSiglas) :
            PaisUpdate(id, d, s)
    \/ \E id \in IdsOf(pais) : PaisDelete(id)
    \/ \E p \in IdsOf(pais), d \in RawNames, s \in RawSiglas : EstadoCreate(p, d, s)
    \/ \E id \in IdsOf(estado), p \in OptOf(IdsOf(pais)),
          d \in OptOf(RawNames), s \in OptOf(RawSiglas) : EstadoUpdate(id, p, d, s)
    \/ \E id \in IdsOf(estado) : EstadoDelete(id)
    \/ \E e \in IdsOf(estado), d \in RawNames, s \in OptOf(RawCidadeSiglas) :
            CidadeCreate(e, d, s)
    \/ \E id \in IdsOf(cidade), e \in OptOf(IdsOf(estado)),
          d \in OptOf(RawNames), s \in OptOf(RawCidadeSiglas) : CidadeUpdate(id, e, d, s)
    \/ \E id \in IdsOf(cidade) : CidadeDelete(id)

Spec == Init /\ [][Next]_vars

\* The same registry with the clock advancing between requests.
NextClock == Tick \/ (Next /\ Rows' <= MaxClockRows)

SpecClock == Init /\ [][NextClock]_vars

-----------------------------------------------------------------------------
(* All six registries, started on a database that already holds reference  *)
(* data: a country, one of its states, a city of that state and a profile. *)
RawCeps == { <<"0", "1", "0", "0", "1", "0", "0", "0">> }
RawCpfs == { <<"1", "2", "3", ".", "4", "5", "6", ".", "7", "8", "9", "-", "0", "1">> }
RawEmails == { <<"s", "p", "@", "R", "j">> }
RawTelefones == { <<"5", "5", "-", "1">> }
RawNomes == { <<" ", "s", "p", " ", " ", "R", "J">> }
\* Passwords the schema accepts (min_length=6, no maximum): a short one and
\* two long ones that differ only after the bytes bcrypt reads.
Pad(c, n) == [i \in 1..n |-> c]
SenhaCurta == <<"s", "e", "n", "h", "a", "1">>
SenhaLonga(c) == Pad("a", BcryptMaxBytes) \o <<c>>
Senhas == {SenhaCurta, SenhaLonga("x"), SenhaLonga("y")}

SeedName == CHOOSE d \in RawNames : Title(Strip(d)) = <<"S", "p">>
SeedSigla == CHOOSE g \in RawSiglas : Upper(Strip(g)) = <<"S", "P">>

UsuarioPayloads(perfis, cidades, cpfs, emails, pws) ==
    {CreateUsuario(EnderecoBase(c, Some(cep), Some(<<"s">>)), p, cpf, nome,
                   email, Some(tel), None, senha) :
        c \in cidades, cep \in RawCeps, p \in perfis, cpf \in cpfs, nome \in RawNomes,
        email \in emails, tel \in RawTelefones, senha \in pws}

InitRegistry ==
    /\ pais = <<PaisRow(PaisBase(SeedName, SeedSigla), 0)>>
    /\ estado = <<EstadoRow(EstadoBase(1, SeedName, SeedSigla), 0)>>
    /\ cidade = <<CidadeRow(CidadeBase(1, SeedName, Some(Upper(Strip(SeedSigla)))), 0)>>
    /\ perfil = <<PerfilRow(PerfilBase(SeedName), 0)>>
    /\ endereco = <<>>
    /\ usuario = <<>>
    /\ now = 0
    /\ tz = 0
    /\ Quiet

NextRegistry ==
    \/ \E s \in RawSiglas : PaisCreate(SeedName, s)
    \/ \E id \in IdsOf(pais) : PaisDelete(id)
    \/ \E p \in IdsOf(pais), s \in RawSiglas : EstadoCreate(p, SeedName, s)
    \/ \E id \in IdsOf(estado) : EstadoDelete(id)
    \/ \E e \in IdsOf(estado), s \in OptOf(RawCidadeSiglas) : CidadeCreate(e, SeedName, s)
    \/ \E id \in IdsOf(cidade) : CidadeDelete(id)
    \/ PerfilCreate(SeedName)
    \/ \E id \in IdsOf(perfil), d \in OptOf({SeedName}) : PerfilUpdate(id, d)
    \/ \E id \in IdsOf(perfil) : PerfilDelete(id)
    \/ \E c \in IdsOf(cidade), cep \in OptOf(RawCeps) : EnderecoCreate(c, cep, Some(<<"s">>))
    \/ \E id \in IdsOf(endereco), c \in IdsOf(cidade), cep \in OptOf(RawCeps) :
            EnderecoUpdate(id, c, cep, Some(<<"s">>))
    \/ \E id \in IdsOf(endereco) : EnderecoDelete(id)
    \/ \E data \in UsuarioPayloads(IdsOf(perfil), IdsOf(cidade), RawCpfs,
                                   OptOf(RawEmails), {SenhaCurta}) : UsuarioCreate(data)
    \/ \E id \in IdsOf(usuario) : UsuarioDelete(id)

SpecRegistry == InitRegistry /\ [][NextRegistry]_vars

-----------------------------------------------------------------------------
(* The user registry with its passwords and password-reset tokens, on a    *)
(* host in one of several time zones, the clock advancing.                 *)
MaxAuthUsers == 1     \* users registered
TickMinutes == 5      \* the clock advances by this many minutes at a time
MaxAuthClock == 15    \* last instant of the clock, in minutes

\* utcoffset of the host, in minutes: west of UTC, UTC, east of UTC.
TzOffsets == {-180, 0, 60}

AuthCpfs == RawCpfs \cup { <<"9", "8", "7", "6", "5", "4", "3", "2", "1", "0", "0">> }
AuthEmails == RawEmails \cup { <<"r", "j", "@", "s", "p">> }

\* What a user can type to ask for a token: a tax id, as stored or as digits
\* only, or an e-mail address.
Credentials == AuthCpfs \cup {Digits(c) : c \in RawCpfs} \cup AuthEmails

UpdatePayloads ==
    {UpdateUsuario(None, None, None, None, None, None, senha) : senha \in OptOf(Senhas)}

\* Each person registers with their own tax id and e-mail address.
AuthPayloads ==
    UsuarioPayloads({1}, {1}, RawCpfs, {Some(e) : e \in RawEmails}, Senhas)
    \cup UsuarioPayloads({1}, {1}, AuthCpfs \ RawCpfs,
                         {Some(e) : e \in AuthEmails \ RawEmails}, Senhas)

\* A token signed with another key.
ForgedToken ==
    JwtEncode([sub |-> 1, exp |-> MaxAuthClock + TokenMinutes, jti |-> "jti-1"],
              "another-key")

AuthTick ==
    /\ now < MaxAuthClock
    /\ now' = now + TickMinutes
    /\ UNCHANGED <<geoVars, userVars, authVars, pending>>

InitAuth ==
    /\ pais = <<PaisRow(PaisBase(SeedName, SeedSigla), 0)>>
    /\ estado = <<EstadoRow(EstadoBase(1, SeedName, SeedSigla), 0)>>
    /\ cidade = <<CidadeRow(CidadeBase(1, SeedName, Some(Upper(Strip(SeedSigla)))), 0)>>
    /\ perfil = <<PerfilRow(PerfilBase(SeedName), 0)>>
    /\ endereco = <<>>
    /\ usuario = <<>>
    /\ now = 0
    /\ tz \in TzOffsets
    /\ Quiet

NextAuth ==
    \/ \E data \in AuthPayloads : Len(usuario) < MaxAuthUsers /\ UsuarioCreate(data)
    \/ \E id \in IdsOf(usuario), data \in UpdatePayloads : UsuarioUpdate(id, data)
    \/ \E id \in IdsOf(usuario) : UsuarioDelete(id)
    \/ \E id \in IdsOf(usuario), senha_atual \in Senhas, nova_senha \in Senhas :
            ChangePassword(id, senha_atual, nova_senha)
    \/ \E id \in IdsOf(usuario), nova_senha \in Senhas : ResetPassword(id, nova_senha)
    \/ \E credential \in Credentials, emailFate \in Fates, whatsappFate \in Fates :
            RequestPasswordRecovery(credential, emailFate, whatsappFate)
    \/ \E token \in {r.token : r \in tokens} \cup {ForgedToken}, nova_senha \in Senhas :
            ResetPasswordWithToken(token, nova_senha)
    \/ AuthTick

SpecAuth == InitAuth /\ [][NextAuth]_vars

-----------------------------------------------------------------------------
(* Concurrent creates.  A create awaits the store twice: once for the      *)
(* duplicate check and once for the commit; between the two, another       *)
(* session can run.  Each session has its own transaction.                 *)
\* The second half of PaisService.create: db.add, commit.  The table has no
\* unique index, so the insert is accepted whatever the other rows are.
PaisCommitStep(tbl, data, t) ==
    Step(Append(tbl, PaisRow(data, t)), Outcome("entity", Len(tbl) + 1, ""))

\* An insert into a table with a unique index on (pais_id, descricao).
EstadoCommitStepUnique(paisTbl, tbl, data, t) ==
    IF \/ ~EstadoForeignKeyOk(paisTbl, data.pais_id)
       \/ \E i \in 1..Len(tbl) : /\ tbl[i].pais_id = data.pais_id
                                 /\ Lower(tbl[i].descricao) = Lower(data.descricao)
    THEN Step(tbl, Outcome("fault", 0, ""))
    ELSE Step(Append(tbl, EstadoRow(data, t)), Outcome("entity", Len(tbl) + 1, ""))

\* The second half of EstadoService.create.
EstadoCommitStep(paisTbl, tbl, data, t) ==
    IF ~EstadoForeignKeyOk(paisTbl, data.pais_id)
    THEN Step(tbl, Outcome("fault", 0, ""))
    ELSE Step(Append(tbl, EstadoRow(data, t)), Outcome("entity", Len(tbl) + 1, ""))

\* The second half of CidadeService.create.
CidadeCommitStep(estadoTbl, tbl, data, t) ==
    IF ~CidadeForeignKeyOk(estadoTbl, data.estado_id)
    THEN Step(tbl, Outcome("fault", 0, ""))
    ELSE Step(Append(tbl, CidadeRow(data, t)), Outcome("entity", Len(tbl) + 1, ""))

\* The sessions that have passed the duplicate check of a create on tabela.
PendingOn(tabela) ==
    {s \in Sessions : pending[s] # None /\ Get(pending[s]).tabela = tabela}

\* Room, within the bounds, for one more row of tbl once every create in
\* progress has committed.
RoomFor(tabela, tbl) ==
    /\ Len(tbl) + Cardinality(PendingOn(tabela)) < MaxPerTable
    /\ Rows + Cardinality({s \in Sessions : pending[s] # None}) < MaxRows

\* The first half of a create: the duplicate check, on the rows committed
\* so far.  A duplicate ends the request with the message.
CreateCheck(s, tabela, data, chk) ==
    /\ pending[s] = None
    /\ pending' = IF chk.dup THEN pending
                  ELSE [pending EXCEPT ![s] = Some([tabela |-> tabela, data |-> data])]
    /\ UNCHANGED <<geoVars, userVars, now, authVars>>

PaisCreateCheck(s, rawDescricao, rawSigla) ==
    LET data == PaisBase(rawDescricao, rawSigla) IN
    /\ RoomFor("pais", pais)
    /\ \E chk \in PaisCheckDuplicate(pais, data.descricao, data.sigla, None) :
            CreateCheck(s, "pais", data, chk)

EstadoCreateCheck(s, pais_id, rawDescricao, rawSigla) ==
    LET data == EstadoBase(pais_id, rawDescricao, rawSigla) IN
    /\ RoomFor("estado", estado)
    /\ \E chk \in EstadoCheckDuplicate(estado, data.pais_id, data.descricao,
                                       data.sigla, None) :
            CreateCheck(s, "estado", data, chk)

CidadeCreateCheck(s, estado_id, rawDescricao, sigla) ==
    LET data == CidadeBase(estado_id, rawDescricao, sigla) IN
    /\ RoomFor("cidade", cidade)
    /\ \E chk \in CidadeCheckDuplicate(cidade, data.estado_id, data.descricao,
                                       data.sigla, None) :
            CreateCheck(s, "cidade", data, chk)

PaisCreateCommit(s) ==
    /\ s \in PendingOn("pais")
    /\ pais' = PaisCommitStep(pais, Get(pending[s]).data, now).tbl
    /\ pending' = [pending EXCEPT ![s] = None]
    /\ UNCHANGED <<estado, cidade, userVars, now, authVars>>

EstadoCreateCommit(s) ==
    /\ s \in PendingOn("estado")
    /\ estado' = EstadoCommitStep(pais, estado, Get(pending[s]).data, now).tbl
    /\ pending' = [pending EXCEPT ![s] = None]
    /\ UNCHANGED <<pais, cidade, userVars, now, authVars>>

CidadeCreateCommit(s) ==
    /\ s \in PendingOn("cidade")
    /\ cidade' = CidadeCommitStep(estado, cidade, Get(pending[s]).data, now).tbl
    /\ pending' = [pending EXCEPT ![s] = None]
    /\ UNCHANGED <<pais, estado, userVars, now, authVars>>

NextRace ==
    \/ \E s \in Sessions, d \in RawNames, g \in RawSiglas : PaisCreateCheck(s, d, g)
    \/ \E s \in Sessions : PaisCreateCommit(s)
    \/ \E s \in Sessions, p \in IdsOf(pais), d \in RawNames, g \in RawSiglas :
            EstadoCreateCheck(s, p, d, g)
    \/ \E s \in Sessions : EstadoCreateCommit(s)
    \/ \E s \in Sessions, e \in IdsOf(estado), d \in RawNames,
          g \in OptOf(RawCidadeSiglas) : CidadeCreateCheck(s, e, d, g)
    \/ \E s \in Sessions : CidadeCreateCommit(s)

SpecRace == Init /\ [][NextRace]_vars

-----------------------------------------------------------------------------
(* Request payloads after schema validation.                               *)
PaisPayloads == {PaisBase(d, s) : d \in RawNames, s \in RawSiglas}
EstadoPayloads(parents) ==
    {EstadoBase(p, d, s) : p \in parents, d \in RawNames, s \in RawSiglas}
CidadePayloads(parents) ==
    {CidadeBase(e, d, s) : e \in parents, d \in RawNames, s \in OptOf(RawCidadeSiglas)}

\* A create that inserted a row.
Created(tbl, r) == r.out.kind = "entity" /\ Len(r.tbl) = Len(tbl) + 1
\* A create refused with a conflict message, inserting nothing.
Conflict(tbl, r) == r.out.kind = "message" /\ r.tbl = tbl

-----------------------------------------------------------------------------
\* C1: in every reachable registry, when a create succeeds, a second create
\* issued right after it with the same name (compared case-insensitively)
\* under the same parent returns a conflict message and inserts no row, at
\* each of the three levels; so of the two calls exactly one creates.
C1_SecondCreateConflicts ==
    /\ \A d1 \in PaisPayloads, d2 \in PaisPayloads :
          Lower(d1.descricao) = Lower(d2.descricao) =>
             \A r1 \in PaisCreateStep(pais, d1, now) :
                Created(pais, r1) =>
                   \A r2 \in PaisCreateStep(r1.tbl, d2, now) : Conflict(r1.tbl, r2)
    /\ \A d1 \in EstadoPayloads(IdsOf(pais)), d2 \in EstadoPayloads(IdsOf(pais)) :
          (d1.pais_id = d2.pais_id /\ Lower(d1.descricao) = Lower(d2.descricao)) =>
             \A r1 \in EstadoCreateStep(pais, estado, d1, now) :
                Created(estado, r1) =>
                   \A r2 \in EstadoCreateStep(pais, r1.tbl, d2, now) : Conflict(r1.tbl, r2)
    /\ \A d1 \in CidadePayloads(IdsOf(estado)), d2 \in CidadePayloads(IdsOf(estado)) :
          (d1.estado_id = d2.estado_id /\ Lower(d1.descricao) = Lower(d2.descricao)) =>
             \A r1 \in CidadeCreateStep(estado, cidade, d1, now) :
                Created(cidade, r1) =>
                   \A r2 \in CidadeCreateStep(estado, r1.tbl, d2, now) : Conflict(r1.tbl, r2)

\* A registry where such a pair of creates happens at every level: a country,
\* one of its states and one of that state's cities were each created while
\* their names were free, and a create repeating each name is refused.
C1_Witness ==
    /\ \E d \in PaisPayloads, i \in PaisGetAll(pais) :
          /\ pais[i].descricao = d.descricao /\ pais[i].sigla # d.sigla
          /\ \A r \in PaisCreateStep(pais, d, now) : Conflict(pais, r)
    /\ \E d \in EstadoPayloads(IdsOf(pais)), i \in EstadoGetAll(estado) :
          /\ estado[i].pais_id = d.pais_id
          /\ estado[i].descricao = d.descricao /\ estado[i].sigla # d.sigla
          /\ \A r \in EstadoCreateStep(pais, estado, d, now) : Conflict(estado, r)
    /\ \E d \in CidadePayloads(IdsOf(estado)), i \in CidadeGetAll(cidade) :
          /\ cidade[i].estado_id = d.estado_id
          /\ cidade[i].descricao = d.descricao /\ cidade[i].sigla # d.sigla
          /\ \A r \in CidadeCreateStep(estado, cidade, d, now) : Conflict(cidade, r)

-----------------------------------------------------------------------------
\* Two rows carry the same name or the same code, compared case-insensitively.
SameNameOrSigla(a, b) ==
    \/ Lower(a.descricao) = Lower(b.descricao)
    \/ Lower(a.sigla) = Lower(b.sigla)

\* The same for cities, whose code counts only when present.
SameNameOrSiglaCidade(a, b) ==
    \/ Lower(a.descricao) = Lower(b.descricao)
    \/ /\ Truthy(a.sigla) /\ Truthy(b.sigla)
       /\ Lower(Get(a.sigla)) = Lower(Get(b.sigla))

-----------------------------------------------------------------------------
PerfilPayloads == {PerfilBase(d) : d \in RawNames}

\* The create payload that repeats the name and the code of a stored row.
SameAs(row) == [descricao |-> row.descricao, sigla |-> row.sigla]

\* C3: in every registry and after any order of operations, a record whose
\* delete succeeded (its deleted-at is set) is returned by no get, no list
\* and no get_by_parent, and is selected by no duplicate check; a create
\* that repeats its name and code under the same parent succeeds unless a
\* non-deleted sibling holds them.  A successful delete sets deleted-at.
C3_DeletedInvisible ==
    /\ \A i \in 1..Len(pais) :
          /\ PaisDeleteStep(pais, i, now).out.kind = "true" =>
                PaisDeleteStep(pais, i, now).tbl[i].dt_exclusao # None
          /\ pais[i].dt_exclusao # None =>
                /\ PaisGetById(pais, i) = None
                /\ i \notin PaisGetAll(pais)
                /\ \A d \in PaisPayloads :
                      i \notin PaisDuplicateRows(pais, d.descricao, d.sigla, None)
                /\ (\A j \in PaisGetAll(pais) : ~SameNameOrSigla(pais[j], pais[i])) =>
                      \A r \in PaisCreateStep(pais, SameAs(pais[i]), now) : Created(pais, r)
    /\ \A i \in 1..Len(estado) :
          /\ EstadoDeleteStep(estado, i, now).out.kind = "true" =>
                EstadoDeleteStep(estado, i, now).tbl[i].dt_exclusao # None
          /\ estado[i].dt_exclusao # None =>
                /\ EstadoGetById(estado, i) = None
                /\ i \notin EstadoGetAll(estado)
                /\ \A p \in IdsOf(pais) : i \notin EstadoGetByPaisId(estado, p)
                /\ \A d \in EstadoPayloads(IdsOf(pais)) :
                      i \notin EstadoDuplicateRows(estado, d.pais_id, d.descricao,
                                                   d.sigla, None)
                /\ (\A j \in EstadoGetByPaisId(estado, estado[i].pais_id) :
                       ~SameNameOrSigla(estado[j], estado[i])) =>
                      \A r \in EstadoCreateStep(pais, estado,
                                  [pais_id |-> estado[i].pais_id] @@ SameAs(estado[i]), now) :
                         Created(estado, r)
    /\ \A i \in 1..Len(cidade) :
          /\ CidadeDeleteStep(cidade, i, now).out.kind = "true" =>
                CidadeDeleteStep(cidade, i, now).tbl[i].dt_exclusao # None
          /\ cidade[i].dt_exclusao # None =>
                /\ CidadeGetById(cidade, i) = None
                /\ i \notin CidadeGetAll(cidade)
                /\ \A e \in IdsOf(estado) : i \notin CidadeGetByEstadoId(cidade, e)
                /\ (\A j \in CidadeGetByEstadoId(cidade, cidade[i].estado_id) :
                       ~SameNameOrSiglaCidade(cidade[j], cidade[i])) =>
                      \A r \in CidadeCreateStep(estado, cidade,
                                  [estado_id |-> cidade[i].estado_id] @@ SameAs(cidade[i]), now) :
                         Created(cidade, r)
    /\ \A i \in 1..Len(perfil) :
          /\ PerfilDeleteStep(perfil, i, now).out.kind = "true" =>
                PerfilDeleteStep(perfil, i, now).tbl[i].dt_exclusao # None
          /\ perfil[i].dt_exclusao # None =>
                /\ PerfilGetById(perfil, i) = None
                /\ i \notin PerfilGetAll(perfil)
                /\ \A d \in PerfilPayloads : i \notin PerfilGetByDescricao(perfil, d.descricao)
                /\ (\A j \in PerfilGetAll(perfil) :
                       Lower(perfil[j].descricao) # Lower(perfil[i].descricao)) =>
                      Created(perfil, PerfilCreateStep(perfil,
                                         [descricao |-> perfil[i].descricao], now))
    /\ \A i \in 1..Len(usuario) :
          /\ UsuarioDeleteStep(usuario, i, now).out.kind = "true" =>
                UsuarioDeleteStep(usuario, i, now).tbl[i].dt_exclusao # None
          /\ usuario[i].dt_exclusao # None =>
                /\ UsuarioGetById(usuario, i) = None
                /\ i \notin UsuarioGetAll(usuario)
                /\ \A c \in RawCpfs \cup {usuario[i].cpf_cnpj} :
                      i \notin UsuarioGetByCpfCnpj(usuario, c)
                /\ \A m \in RawEmails \cup {Get(usuario[i].email)} :
                      i \notin UsuarioGetByEmail(usuario, m)
    /\ \A i \in 1..Len(endereco) :
          /\ EnderecoDeleteStep(endereco, i, now).out.kind = "true" =>
                EnderecoDeleteStep(endereco, i, now).tbl[i].dt_exclusao # None
          /\ endereco[i].dt_exclusao # None =>
                EnderecoGetById(endereco, i).kind = "none"

\* A country and a profile were deleted and then created again under the
\* same name, and a user was deleted.
C3_Witness ==
    /\ Len(pais) = 2 /\ Len(perfil) = 2
    /\ pais[1].dt_exclusao # None /\ pais[2].dt_exclusao = None
    /\ SameNameOrSigla(pais[1], pais[2])
    /\ perfil[1].dt_exclusao # None /\ perfil[2].dt_exclusao = None
    /\ perfil[1].descricao = perfil[2].descricao
    /\ \E u \in 1..Len(usuario) : usuario[u].dt_exclusao # None

-----------------------------------------------------------------------------
\* C10: a delete changes no child of the deleted record.  A delete of a
\* country leaves each of its states with deleted-at unset and returned by
\* get, list and get_by_parent as before; a delete of a state does the same
\* for its cities; a delete of a city leaves the addresses that reference it
\* as they were, and a delete of a user leaves the user's address as it was.
C10_DeleteLeavesChildren ==
    [][/\ \A id \in IdsOf(pais) :
             PaisDelete(id) =>
                \A e \in EstadoGetByPaisId(estado, id) :
                   /\ EstadoGetById(estado', e) = Some(estado[e])
                   /\ e \in EstadoGetAll(estado')
                   /\ e \in EstadoGetByPaisId(estado', id)
       /\ \A id \in IdsOf(estado) :
             EstadoDelete(id) =>
                \A c \in CidadeGetByEstadoId(cidade, id) :
                   /\ CidadeGetById(cidade', c) = Some(cidade[c])
                   /\ c \in CidadeGetAll(cidade')
                   /\ c \in CidadeGetByEstadoId(cidade', id)
       /\ \A id \in IdsOf(cidade) :
             CidadeDelete(id) =>
                /\ Len(endereco') = Len(endereco)
                /\ \A a \in 1..Len(endereco) :
                      endereco[a].cidade_id = id => endereco'[a] = endereco[a]
       /\ \A id \in 1..Len(usuario) :
             UsuarioDelete(id) =>
                /\ Len(endereco') = Len(endereco)
                /\ endereco'[usuario[id].endereco_id] = endereco[usuario[id].endereco_id]
      ]_vars

\* The country is deleted and its state is still returned by get_by_parent;
\* the city is deleted and an address that references it is intact; a user
\* is deleted and the address the user owns is intact.
C10_Witness ==
    /\ pais[1].dt_exclusao # None
    /\ 1 \in EstadoGetByPaisId(estado, 1)
    /\ cidade[1].dt_exclusao # None
    /\ \E u \in 1..Len(usuario) :
          /\ usuario[u].dt_exclusao # None
          /\ endereco[usuario[u].endereco_id].dt_exclusao = None
          /\ endereco[usuario[u].endereco_id].cidade_id = 1

-----------------------------------------------------------------------------
\* The update requests that change nothing of a row: each field is either
\* unset or equal to the stored value.
Unchanging(v) == {None, Some(v)}
UnchangingOpt(o) == {None, o}

\* The outcome the claim requires: the stored record, nothing written.
Untouched(tbl, id) == {Step(tbl, Outcome("entity", id, ""))}

\* C4: for a non-deleted country, state or city, an update whose fields are
\* all unset or equal to the stored values returns the record and writes
\* nothing, updated-at included, so update(id, {}) returns what get(id)
\* returns; no duplicate check runs: the outcome is the same on a table that
\* also holds a twin of the record, which a duplicate check would select.
C4_UnchangingUpdate ==
    /\ \A id \in PaisGetAll(pais) :
          \A d \in Unchanging(pais[id].descricao), g \in Unchanging(pais[id].sigla) :
             LET data == [descricao |-> d, sigla |-> g]
                 twin == Append(pais, pais[id])
             IN /\ PaisUpdateStep(pais, id, data, now) = Untouched(pais, id)
                /\ PaisUpdateStep(twin, id, data, now) = Untouched(twin, id)
                /\ PaisGetById(pais, id) = Some(pais[id])
    /\ \A id \in EstadoGetAll(estado) :
          \A p \in Unchanging(estado[id].pais_id),
             d \in Unchanging(estado[id].descricao), g \in Unchanging(estado[id].sigla) :
             LET data == [pais_id |-> p, descricao |-> d, sigla |-> g]
                 twin == Append(estado, estado[id])
             IN /\ EstadoUpdateStep(pais, estado, id, data, now) = Untouched(estado, id)
                /\ EstadoUpdateStep(pais, twin, id, data, now) = Untouched(twin, id)
                /\ EstadoGetById(estado, id) = Some(estado[id])
    /\ \A id \in CidadeGetAll(cidade) :
          \A e \in Unchanging(cidade[id].estado_id),
             d \in Unchanging(cidade[id].descricao), g \in UnchangingOpt(cidade[id].sigla) :
             LET data == [estado_id |-> e, descricao |-> d, sigla |-> g]
                 twin == Append(cidade, cidade[id])
             IN /\ CidadeUpdateStep(estado, cidade, id, data, now) = Untouched(cidade, id)
                /\ CidadeUpdateStep(estado, twin, id, data, now) = Untouched(twin, id)
                /\ CidadeGetById(cidade, id) = Some(cidade[id])

\* A country, a state and a city exist, none deleted, each last written
\* before the present instant: an update that wrote would move updated-at.
C4_Witness ==
    /\ \E id \in PaisGetAll(pais) : pais[id].dt_atualizacao < now
    /\ \E id \in EstadoGetAll(estado) : estado[id].dt_atualizacao < now
    /\ \E id \in CidadeGetAll(cidade) :
          cidade[id].dt_atualizacao < now /\ IsSome(cidade[id].sigla)

-----------------------------------------------------------------------------
\* C5: at each level, a create followed by get returns the name trimmed and
\* title-cased and the code trimmed and upper-cased; an update that sets the
\* code stores it trimmed and upper-cased as well.
C5_NormalisedOnCreateAndUpdate ==
    /\ \A d \in RawNames, g \in RawSiglas :
          \A r \in PaisCreateStep(pais, PaisBase(d, g), now) :
             Created(pais, r) =>
                /\ Get(PaisGetById(r.tbl, r.out.id)).descricao = Title(Strip(d))
                /\ Get(PaisGetById(r.tbl, r.out.id)).sigla = Upper(Strip(g))
    /\ \A p \in IdsOf(pais), d \in RawNames, g \in RawSiglas :
          \A r \in EstadoCreateStep(pais, estado, EstadoBase(p, d, g), now) :
             Created(estado, r) =>
                /\ Get(EstadoGetById(r.tbl, r.out.id)).descricao = Title(Strip(d))
                /\ Get(EstadoGetById(r.tbl, r.out.id)).sigla = Upper(Strip(g))
    /\ \A e \in IdsOf(estado), d \in RawNames, g \in RawCidadeSiglas :
          \A r \in CidadeCreateStep(estado, cidade, CidadeBase(e, d, Some(g)), now) :
             Created(cidade, r) =>
                /\ Get(CidadeGetById(r.tbl, r.out.id)).descricao = Title(Strip(d))
                /\ Get(CidadeGetById(r.tbl, r.out.id)).sigla = Some(Upper(Strip(g)))
    /\ \A id \in PaisGetAll(pais), g \in RawSiglas :
          \A r \in PaisUpdateStep(pais, id, UpdatePais(None, Some(g)), now) :
             r.out.kind = "entity" =>
                Get(PaisGetById(r.tbl, id)).sigla = Upper(Strip(g))
    /\ \A id \in EstadoGetAll(estado), g \in RawSiglas :
          \A r \in EstadoUpdateStep(pais, estado, id,
                                    UpdateEstado(None, None, Some(g)), now) :
             r.out.kind = "entity" =>
                Get(EstadoGetById(r.tbl, id)).sigla = Upper(Strip(g))
    /\ \A id \in CidadeGetAll(cidade), g \in RawCidadeSiglas :
          \A r \in CidadeUpdateStep(estado, cidade, id,
                                    UpdateCidade(None, None, Some(g)), now) :
             r.out.kind = "entity" =>
                Get(CidadeGetById(r.tbl, id)).sigla = Some(Upper(Strip(g)))

-----------------------------------------------------------------------------
\* What authenticate_user returns for the tax id of user id.
Authenticates(tbl, id, plain) ==
    UsuarioAuthenticate(tbl, tbl[id].cpf_cnpj, plain) = {Outcome("entity", id, "")}
Rejects(tbl, id, plain) ==
    UsuarioAuthenticate(tbl, tbl[id].cpf_cnpj, plain) = {Outcome("none", 0, "")}

\* C6: for a non-deleted user, after any create, change-password,
\* reset-password and update requests, authenticate with the user's tax id
\* and a plain password returns the user exactly when the plain password is
\* the one most recently set, and returns nothing otherwise; after a
\* successful change-password from old to a different new, authenticate
\* with old returns nothing and with new returns the user.
C6_AuthenticateLatestPassword ==
    \A id \in UsuarioGetAll(usuario) :
       /\ \A plain \in Senhas :
             IF plain = senhas[id] THEN Authenticates(usuario, id, plain)
             ELSE Rejects(usuario, id, plain)
       /\ \A old \in Senhas, new \in Senhas :
             \A r \in ChangePasswordStep(usuario, id, old, new, now) :
                r.out.kind = "true" /\ new # old =>
                   /\ Rejects(r.tbl, id, old)
                   /\ Authenticates(r.tbl, id, new)

-----------------------------------------------------------------------------
\* The instant a returned token was issued at.
IssuedAt(r) == r.expira_em - TokenMinutes

\* C7: a token returned by generate_password_reset_token verifies to the id
\* of the user resolved from the credential at every instant strictly before
\* ten minutes after its issue, and to nothing at every instant later than
\* ten minutes after its issue.
C7_TokenVerifiesForTenMinutes ==
    \A r \in tokens :
       /\ now < IssuedAt(r) + TokenMinutes =>
             VerifyPasswordResetToken(r.token, now, tz) = Some(r.usuario)
       /\ now > IssuedAt(r) + TokenMinutes =>
             VerifyPasswordResetToken(r.token, now, tz) = None

-----------------------------------------------------------------------------
\* C8: a token is never consumed.  Once the password of its user has been
\* set again, by a reset with this token or by any other operation, the
\* token still verifies at every instant before its ten-minute expiry, and
\* a reset with it sets the password of the same (non-deleted) user.
C8_TokenNeverConsumed ==
    \A r \in trocadas :
       now < IssuedAt(r) + TokenMinutes /\ UsuarioGetById(usuario, r.usuario) # None =>
          /\ VerifyPasswordResetToken(r.token, now, tz) = Some(r.usuario)
          /\ \A nova_senha \in Senhas :
                \A st \in ResetPasswordWithTokenStep(usuario, r.token, nova_senha,
                                                     now, tz) :
                   /\ st.out = Outcome("true", r.usuario, "")
                   /\ VerifyPassword(nova_senha, st.tbl[r.usuario].senha) = "true"

-----------------------------------------------------------------------------
\* Two live rows of the same parent with the same name.
SameName(tbl, i, j) ==
    /\ i # j
    /\ tbl[i].dt_exclusao = None /\ tbl[j].dt_exclusao = None
    /\ Lower(tbl[i].descricao) = Lower(tbl[j].descricao)

CollidePais(tbl) == \E i \in 1..Len(tbl), j \in 1..Len(tbl) : SameName(tbl, i, j)

CollideEstado(tbl) ==
    \E i \in 1..Len(tbl), j \in 1..Len(tbl) :
       SameName(tbl, i, j) /\ tbl[i].pais_id = tbl[j].pais_id

CollideCidade(tbl) ==
    \E i \in 1..Len(tbl), j \in 1..Len(tbl) :
       SameName(tbl, i, j) /\ tbl[i].estado_id = tbl[j].estado_id

\* C9: two creates for the same (parent, name) on country, state or city can
\* both have passed the duplicate check before either commits; nothing then
\* stops either commit (no lock, no uniqueness constraint), so once both
\* have committed the table holds two non-deleted siblings of the same name.
C9_ConcurrentCreatesCollide ==
    \A s1 \in Sessions, s2 \in Sessions :
       (/\ s1 # s2
        /\ pending[s1] # None /\ pending[s2] # None
        /\ Get(pending[s1]).tabela = Get(pending[s2]).tabela
        /\ Lower(Get(pending[s1]).data.descricao) = Lower(Get(pending[s2]).data.descricao))
       =>
       LET d1 == Get(pending[s1]).data
           d2 == Get(pending[s2]).data
           tabela == Get(pending[s1]).tabela
       IN
       /\ tabela = "pais" =>
             CollidePais(PaisCommitStep(PaisCommitStep(pais, d1, now).tbl, d2, now).tbl)
       /\ (tabela = "estado" /\ d1.pais_id = d2.pais_id
                             /\ EstadoForeignKeyOk(pais, d1.pais_id)) =>
             CollideEstado(EstadoCommitStep(pais,
                                            EstadoCommitStep(pais, estado, d1, now).tbl,
                                            d2, now).tbl)
       /\ (tabela = "cidade" /\ d1.estado_id = d2.estado_id
                             /\ CidadeForeignKeyOk(estado, d1.estado_id)) =>
             CollideCidade(CidadeCommitStep(estado,
                                            CidadeCommitStep(estado, cidade, d1, now).tbl,
                                            d2, now).tbl)

\* Both sessions have committed and a country holds two non-deleted states
\* of the same name.
C9_Witness ==
    /\ \A s \in Sessions : pending[s] = None
    /\ CollideEstado(estado)

-----------------------------------------------------------------------------
(* routes/pais.py, routes/estado.py, routes/cidade.py: what the caller of  *)
(* a registry operation answers for each outcome.                          *)
HttpResponse(status, body) == [status |-> status, body |-> body]

\* FastAPI validates what the handler returns against the response_model
\* of the route, after the handler's try block: a value the model does not
\* admit is an internal server error.
Serialize(admitted, status, out) ==
    IF out.kind \in admitted THEN HttpResponse(status, out)
    ELSE HttpResponse(500, "")

\* create_pais: response_model=PaisResponse
create_pais(out) ==
    IF out.kind = "fault" THEN HttpResponse(500, "")
    ELSE Serialize({"entity"}, 201, out)

\* update_pais: response_model=PaisResponse
update_pais(out) ==
    IF out.kind = "fault" THEN HttpResponse(500, "")
    ELSE IF out.kind = "none" THEN HttpResponse(404, "")
    ELSE Serialize({"entity"}, 200, out)

\* create_estado: response_model=EstadoResponse
create_estado(out) ==
    IF out.kind = "fault" THEN HttpResponse(500, "")
    ELSE Serialize({"entity"}, 201, out)

\* update_estado: response_model=Optional[EstadoResponse]
update_estado(out) ==
    IF out.kind = "fault" THEN HttpResponse(500, "")
    ELSE Serialize({"entity", "none"}, 200, out)

\* create_cidade: response_model=Union[CidadeResponse, str]
create_cidade(out) ==
    IF out.kind = "fault" THEN HttpResponse(500, "")
    ELSE IF out.kind = "message" THEN HttpResponse(400, out.msg)
    ELSE Serialize({"entity", "message"}, 201, out)

\* update_cidade: response_model=Union[CidadeResponse, str]
update_cidade(out) ==
    IF out.kind = "fault" THEN HttpResponse(500, "")
    ELSE IF out.kind = "none" THEN HttpResponse(404, "")
    ELSE IF out.kind = "message" THEN HttpResponse(400, out.msg)
    ELSE Serialize({"entity", "message"}, 200, out)

\* The answer the outcome calls for: 400-class with the message for a
\* string, 404 for a null, success with the record for an entity.
MappedByType(out, resp) ==
    /\ out.kind = "message" => resp.status \in 400..499 /\ resp.body = out.msg
    /\ out.kind = "none" => resp.status = 404
    /\ out.kind = "entity" => resp.status \in 200..299 /\ resp.body = out

\* C11: for create and update of country, state and city, the caller maps
\* the outcome by type: a string becomes a 400-class response carrying the
\* message, a null a 404 response, an entity a success response.
C11_OutcomeMappedByType ==
    /\ \A d \in RawNames, g \in RawSiglas :
          \A r \in PaisCreateStep(pais, PaisBase(d, g), now) :
             MappedByType(r.out, create_pais(r.out))
    /\ \A id \in IdsOf(pais), d \in OptOf(RawNames), g \in OptOf(RawSiglas) :
          \A r \in PaisUpdateStep(pais, id, UpdatePais(d, g), now) :
             MappedByType(r.out, update_pais(r.out))
    /\ \A p \in IdsOf(pais), d \in RawNames, g \in RawSiglas :
          \A r \in EstadoCreateStep(pais, estado, EstadoBase(p, d, g), now) :
             MappedByType(r.out, create_estado(r.out))
    /\ \A id \in IdsOf(estado), d \in OptOf(RawNames), g \in OptOf(RawSiglas) :
          \A r \in EstadoUpdateStep(pais, estado, id, UpdateEstado(None, d, g), now) :
             MappedByType(r.out, update_estado(r.out))
    /\ \A e \in IdsOf(estado), d \in RawNames, g \in OptOf(RawCidadeSiglas) :
          \A r \in CidadeCreateStep(estado, cidade, CidadeBase(e, d, g), now) :
             MappedByType(r.out, create_cidade(r.out))
    /\ \A id \in IdsOf(cidade), d \in OptOf(RawNames), g \in OptOf(RawCidadeSiglas) :
          \A r \in CidadeUpdateStep(estado, cidade, id, UpdateCidade(None, d, g), now) :
             MappedByType(r.out, update_cidade(r.out))

-----------------------------------------------------------------------------
(* The profile registry alone, from an empty table, the clock advancing.   *)
NextPerfil ==
    \/ \E d \in RawNames : PerfilCreate(d)
    \/ \E id \in IdsOf(perfil), d \in OptOf(RawNames) : PerfilUpdate(id, d)
    \/ \E id \in IdsOf(perfil) : PerfilDelete(id)
    \/ Tick

SpecPerfil == Init /\ [][NextPerfil]_vars

\* Descriptions a caller of the service can pass: as the schema leaves them
\* and in lower case.
PerfilDescricoes ==
    {Title(Strip(d)) : d \in RawNames} \cup {Lower(Strip(d)) : d \in RawNames}

\* The non-deleted profiles other than id that have the description,
\* compared without case.
OtherPerfis(tbl, id, descricao) ==
    {j \in PerfilGetAll(tbl) : j # id /\ Lower(tbl[j].descricao) = Lower(descricao)}

\* C12: create and update of a profile raise a conflict error exactly when
\* another non-deleted profile has the requested description, compared
\* without case, and then no row is created or changed; otherwise, as for
\* an update to the profile's own description, they succeed.
C12_PerfilConflictRaised ==
    \A descricao \in PerfilDescricoes :
       /\ LET r == PerfilCreateStep(perfil, [descricao |-> descricao], now) IN
          IF OtherPerfis(perfil, 0, descricao) # {}
          THEN r = Step(perfil, Outcome("conflict", 0, "descricao"))
          ELSE r.out.kind = "entity" /\ Len(r.tbl) = Len(perfil) + 1
       /\ \A id \in PerfilGetAll(perfil) :
             \A r \in PerfilUpdateStep(perfil, id, [descricao |-> Some(descricao)], now) :
                IF OtherPerfis(perfil, id, descricao) # {}
                THEN r = Step(perfil, Outcome("conflict", id, "descricao"))
                ELSE /\ r.out.kind = "entity"
                     /\ r.tbl[id].descricao = descricao

\* Two non-deleted profiles of different descriptions and a deleted one are
\* in the table: an update of one to the description of the other is the
\* conflict, an update to its own description is not.
C12_Witness ==
    \E i \in PerfilGetAll(perfil), j \in PerfilGetAll(perfil) :
       /\ i # j
       /\ \A descricao \in {perfil[j].descricao, Lower(perfil[j].descricao)} :
             \A r \in PerfilUpdateStep(perfil, i, [descricao |-> Some(descricao)], now) :
                r.out.kind = "conflict"
       /\ \A r \in PerfilUpdateStep(perfil, i, [descricao |-> Some(perfil[i].descricao)],
                                    now) : r.out.kind = "entity"

-----------------------------------------------------------------------------
(* The user registry with several people, on a database that holds the     *)
(* reference data; requests are served one after another.                  *)
\* Addresses that differ in the case of the local part only, and another.
UsuariosEmails == AuthEmails \cup { <<"S", "P", "@", "r", "j">> }

UsuariosCpfs == AuthCpfs \cup { <<"1", "1", "1", "2", "2", "2", "3", "3", "3", "4", "4">> }

UsuariosPayloads ==
    UsuarioPayloads({1}, {1}, UsuariosCpfs, {Some(e) : e \in UsuariosEmails}, {SenhaCurta})

UsuariosUpdatePayloads ==
    {UpdateUsuario(None, None, None, email, None, None, None) :
        email \in OptOf(UsuariosEmails)}

NextUsuarios ==
    \/ \E data \in UsuariosPayloads : UsuarioCreate(data)
    \/ \E id \in IdsOf(usuario), data \in UsuariosUpdatePayloads : UsuarioUpdate(id, data)
    \/ \E id \in IdsOf(usuario) : UsuarioDelete(id)

SpecUsuarios == InitRegistry /\ [][NextUsuarios]_vars

\* What create can be handed: the payloads of the route, and the same with
\* the tax id as digits only.
UsuariosServiceInputs ==
    UsuariosPayloads \cup {[d EXCEPT !.cpf_cnpj = Digits(@)] : d \in UsuariosPayloads}

\* Non-deleted users with the tax id of data, digits compared, or with its
\* e-mail address, compared without case.
UsuariosClashing(tbl, data) ==
    {j \in UsuarioGetAll(tbl) :
        \/ Digits(tbl[j].cpf_cnpj) = Digits(data.cpf_cnpj)
        \/ IsSome(data.email) /\ Lower(Get(tbl[j].email)) = Lower(Get(data.email))}

\* C13: create of a user fails with a conflict whenever a non-deleted user
\* has the same tax-id digits or the same e-mail address without case, and
\* then neither an address nor a user row is created; so no two non-deleted
\* users ever share the digits of their tax id or their e-mail address
\* without case.
C13_UsuarioUnique ==
    /\ \A data \in UsuariosServiceInputs :
          UsuariosClashing(usuario, data) # {} =>
             \A r \in UsuarioCreateStep(perfil, cidade, endereco, usuario, data, now) :
                /\ r.out.kind = "conflict"
                /\ r.endereco = endereco
                /\ r.usuario = usuario
    /\ \A i \in UsuarioGetAll(usuario), j \in UsuarioGetAll(usuario) :
          i # j => /\ Digits(usuario[i].cpf_cnpj) # Digits(usuario[j].cpf_cnpj)
                   /\ Lower(Get(usuario[i].email)) # Lower(Get(usuario[j].email))

\* Two users are registered, and a create with the tax id of one as digits
\* only, and one with the e-mail address of the other in another case, are
\* both refused.
C13_Witness ==
    /\ Cardinality(UsuarioGetAll(usuario)) = 2
    /\ \E data \in UsuariosServiceInputs :
          /\ \E j \in UsuarioGetAll(usuario) :
                /\ usuario[j].cpf_cnpj # data.cpf_cnpj
                /\ Digits(usuario[j].cpf_cnpj) = Digits(data.cpf_cnpj)
          /\ \A r \in UsuarioCreateStep(perfil, cidade, endereco, usuario, data, now) :
                r.out.kind = "conflict"
    /\ \E data \in UsuariosPayloads :
          /\ \A j \in UsuarioGetAll(usuario) :
                Digits(usuario[j].cpf_cnpj) # Digits(data.cpf_cnpj)
          /\ \E j \in UsuarioGetAll(usuario) :
                /\ usuario[j].email # data.email
                /\ Lower(Get(usuario[j].email)) = Lower(Get(data.email))
          /\ \A r \in UsuarioCreateStep(perfil, cidade, endereco, usuario, data, now) :
                r.out.kind = "conflict"

-----------------------------------------------------------------------------
\* What update_usuario can carry for the address: each field sent or not,
\* at least one of them sent.  The city id 0 stands for one that was not
\* sent (None; the schema admits ids greater than 0 only).
EnderecoPatches ==
    {UpdateEndereco(c, cep, complemento) :
        c \in 0..Len(cidade), cep \in OptOf(RawCeps),
        complemento \in OptOf({<<"n", "o", "v", "o">>})}
    \ {UpdateEndereco(0, None, None)}

\* A field of a row after a partial update: the value sent, or the one kept.
Patched(sent, kept) == IF sent = None THEN kept ELSE sent

\* C14: an update of a user that carries only some fields of the address
\* updates the owned address in place: the fields sent take the new value,
\* the address fields not sent (city id, complement, postal code) and the
\* user fields not sent keep their prior value.
C14_PartialAddressUpdate ==
    \A id \in UsuarioGetAll(usuario), e \in EnderecoPatches, nome \in OptOf(RawNomes) :
       LET data == UpdateUsuario(Some(e), None, nome, None, None, None, None)
           a == usuario[id].endereco_id
       IN \A r \in UsuarioUpdateStep(perfil, cidade, endereco, usuario, id, data, now) :
             /\ r.out.kind = "entity"
             /\ Len(r.endereco) = Len(endereco)
             /\ r.endereco[a].cidade_id = IF e.cidade_id = 0 THEN endereco[a].cidade_id
                                           ELSE e.cidade_id
             /\ r.endereco[a].cep = Patched(e.cep, endereco[a].cep)
             /\ r.endereco[a].complemento = Patched(e.complemento, endereco[a].complemento)
             /\ r.usuario[id].nome = Patched(data.nome, Some(usuario[id].nome))[1]
             /\ \A f \in {"perfil_id", "cpf_cnpj", "email", "telefone", "whatsapp",
                          "senha", "endereco_id"} : r.usuario[id][f] = usuario[id][f]

-----------------------------------------------------------------------------
(* routes/auth.py                                                          *)
\* change_password: ValueError becomes 400 with its message, False 404.
change_password(out) ==
    IF out.kind = "conflict" THEN HttpResponse(400, out.msg)
    ELSE IF out.kind = "false" THEN HttpResponse(404, "")
    ELSE IF out.kind = "true" THEN HttpResponse(204, "")
    ELSE HttpResponse(500, "")

\* C15: change_password stores a new credential only after the current
\* password verifies against the stored hash; with a current password that
\* does not verify it fails with a validation error and the stored
\* credential is unchanged; for a user that does not exist or is
\* soft-deleted it reports not-found and changes nothing.
C15_ChangePasswordVerifies ==
    \A id \in IdsOf(usuario), senha_atual \in Senhas, nova_senha \in Senhas :
       \A r \in ChangePasswordStep(usuario, id, senha_atual, nova_senha, now) :
          IF UsuarioGetById(usuario, id) = None
          THEN /\ r = Step(usuario, Outcome("false", id, ""))
               /\ change_password(r.out).status = 404
          ELSE IF VerifyPassword(senha_atual, usuario[id].senha) = "true"
          THEN /\ r.out.kind = "true"
               /\ r.tbl[id].senha \in {HashPassword(nova_senha, salt) : salt \in Salts}
               /\ \A j \in 1..Len(usuario) : j # id => r.tbl[j] = usuario[j]
          ELSE /\ r.tbl = usuario
               /\ r.out.kind = "conflict"
               /\ change_password(r.out).status = 400

\* A registered user whose password was changed before: one current
\* password verifies and the change is stored, another does not and is
\* refused.
C15_Witness ==
    \E id \in UsuarioGetAll(usuario) :
       /\ usuario[id].dt_atualizacao > usuario[id].dt_criacao
       /\ \E senha_atual \in Senhas, nova_senha \in Senhas :
             /\ senha_atual # nova_senha
             /\ \A r \in ChangePasswordStep(usuario, id, senha_atual, nova_senha, now) :
                   r.out.kind = "true" /\ r.tbl[id].senha # usuario[id].senha
       /\ \E senha_atual \in Senhas :
             \A r \in ChangePasswordStep(usuario, id, senha_atual, senha_atual, now) :
                r.out.kind = "conflict"

-----------------------------------------------------------------------------
\* Every value the password field of a write can hold: the passwords and the
\* empty text.
PasswordInputs == Senhas \cup {<<>>}

\* The credential column holds a bcrypt hash.
Hashed(row) == row.senha.alg = "bcrypt"

\* C16: in every reachable state the credential stored for a user is the
\* one-way hash of a password and never the text itself, whichever
\* operation writes it (create, update with a password, change_password,
\* reset_password) and whatever the value of the password field.
C16_CredentialAlwaysHashed ==
    /\ \A id \in 1..Len(usuario) : Hashed(usuario[id])
    /\ \A senha \in PasswordInputs :
          /\ \A data \in AuthPayloads :
                \A r \in UsuarioCreateStep(perfil, cidade, endereco, usuario,
                                           [data EXCEPT !.senha = senha], now) :
                   \A id \in 1..Len(r.usuario) : Hashed(r.usuario[id])
          /\ \A id \in IdsOf(usuario) :
                /\ \A r \in UsuarioUpdateStep(perfil, cidade, endereco, usuario, id,
                                [senha |-> Some(senha), endereco |-> None,
                                 perfil_id |-> None, nome |-> None, email |-> None,
                                 telefone |-> None, whatsapp |-> None], now) :
                      \A j \in 1..Len(r.usuario) : Hashed(r.usuario[j])
                /\ \A senha_atual \in Senhas :
                      \A r \in ChangePasswordStep(usuario, id, senha_atual, senha, now) :
                         \A j \in 1..Len(r.tbl) : Hashed(r.tbl[j])
                /\ \A r \in ResetPasswordStep(usuario, id, senha, now) :
                      \A j \in 1..Len(r.tbl) : Hashed(r.tbl[j])

-----------------------------------------------------------------------------
\* reset_password_with_token: the response to the outcome of the step.
reset_password_with_token(out) ==
    IF out.kind = "invalid" THEN HttpResponse(400, "Token invalido ou expirado")
    ELSE IF out.kind = "false" THEN HttpResponse(404, "Usuario nao encontrado")
    ELSE IF out.kind = "true" THEN HttpResponse(200, "Senha redefinida com sucesso")
    ELSE HttpResponse(500, "Erro ao redefinir senha")

\* The claims of a token somebody signs for user 1.
TokenClaims(exp) == [sub |-> 1, exp |-> exp, jti |-> "jti-1"]

\* Tokens a caller can present at instant t: the ones issued, one signed
\* with another key, one that is not a token at all, and tokens signed with
\* the key of the source: without sub, without exp, with an exp that has
\* passed, with an exp still to come and with an exp no datetime holds.
TokenInputs(t) ==
    {r.token : r \in tokens}
    \cup {ForgedToken,
          [key |-> "not-a-token"],
          [exp |-> t + TokenMinutes, jti |-> "jti-1", key |-> SecretKey],
          [sub |-> 1, jti |-> "jti-1", key |-> SecretKey],
          JwtEncode(TokenClaims(t), SecretKey),
          JwtEncode(TokenClaims(t + TickMinutes), SecretKey),
          JwtEncode(TokenClaims(MaxDatetime + 1), SecretKey),
          JwtEncode(TokenClaims(MaxPlatformTime + 1), SecretKey)}

\* The token has the three claims, is signed with the key and its exp is
\* after the instant t.
ValidUnexpired(token, t) ==
    /\ token.key = SecretKey
    /\ {"sub", "exp"} \subseteq DOMAIN token
    /\ token.exp > t

\* C17: verify_password_reset_token never raises and has exactly two
\* outcomes: the embedded user id for a token with a valid signature and an
\* expiry still to come, and one and the same nothing for a bad signature,
\* a malformed token, a token missing a claim and an expired token; the
\* password-reset endpoint answers all these failures with one response.
C17_VerifyHasTwoOutcomes ==
    \A token \in TokenInputs(now) :
       /\ ~VerifyPasswordResetTokenRaises(token, now, tz)
       /\ IF ValidUnexpired(token, now)
          THEN VerifyPasswordResetToken(token, now, tz) = Some(token.sub)
          ELSE /\ VerifyPasswordResetToken(token, now, tz) = None
               /\ \A nova_senha \in Senhas :
                     \A r \in ResetPasswordWithTokenStep(usuario, token, nova_senha, now, tz) :
                        /\ r.tbl = usuario
                        /\ reset_password_with_token(r.out)
                              = HttpResponse(400, "Token invalido ou expirado")

-----------------------------------------------------------------------------
(* Password recovery for users with and without a whatsapp number, at one   *)
(* instant.                                                                *)
RecoveryPayloads ==
    {[d EXCEPT !.whatsapp = OptTelefone(w)] :
        d \in UsuarioPayloads({1}, {1}, RawCpfs, {Some(e) : e \in RawEmails}, {SenhaCurta})
              \cup UsuarioPayloads({1}, {1}, AuthCpfs \ RawCpfs,
                                   {Some(e) : e \in AuthEmails \ RawEmails}, {SenhaCurta}),
        w \in OptOf(RawTelefones)}

NextRecovery ==
    \/ \E data \in RecoveryPayloads : UsuarioCreate(data)
    \/ \E id \in IdsOf(usuario) : UsuarioDelete(id)
    \/ \E credential \in Credentials, emailFate \in Fates, whatsappFate \in Fates :
            RequestPasswordRecovery(credential, emailFate, whatsappFate)

SpecRecovery == InitAuth /\ [][NextRecovery]_vars

\* The tokens the responses hand out.
Issued(resps) == {Get(resp.issued).token : resp \in {x \in resps : x.issued # None}}

\* C18: in a password-recovery request the e-mail is attempted only if the
\* user has an e-mail address and the message only if the user has a
\* whatsapp number; whatever the notifications do, the request completes
\* with the token issued, the same token, verifying the same way, as when
\* both notifications succeed.
C18_NotificationsBestEffort ==
    \A credential \in Credentials, emailFate \in Fates, whatsappFate \in Fates :
       LET resps == request_password_recovery(usuario, credential, now, tz,
                                              emailFate, whatsappFate)
           sent == request_password_recovery(usuario, credential, now, tz, "sent", "sent")
       IN /\ \A resp \in resps :
                /\ resp.status = 200
                /\ UsuarioFindByCredential(usuario, credential) # {} <=> resp.issued # None
                /\ resp.issued # None =>
                      LET row == usuario[Get(resp.issued).usuario] IN
                      /\ "email" \in resp.notificacoes.attempted <=> Truthy(row.email)
                      /\ "whatsapp" \in resp.notificacoes.attempted <=> Truthy(row.whatsapp)
                      /\ resp.notificacoes.email => emailFate = "sent"
                      /\ resp.notificacoes.whatsapp => whatsappFate = "sent"
          /\ Issued(resps) = Issued(sent)
          /\ \A token \in Issued(resps), t \in now..MaxAuthClock :
                VerifyPasswordResetToken(token, t, tz)
                   \in {VerifyPasswordResetToken(k, t, tz) : k \in Issued(sent)}

\* A token was issued to a user with a whatsapp number while another user
\* has none, and a request whose two notifications raise still hands out a
\* token.
C18_Witness ==
    /\ \E r \in tokens : /\ UsuarioGetById(usuario, r.usuario) # None
                         /\ Truthy(usuario[r.usuario].whatsapp)
    /\ \E id \in UsuarioGetAll(usuario) : ~Truthy(usuario[id].whatsapp)
    /\ \E credential \in Credentials :
          Issued(request_password_recovery(usuario, credential, now, tz,
                                           "raises", "raises")) # {}

-----------------------------------------------------------------------------
\* The row after a soft delete at instant t: deleted-at is t, the updated-at
\* column follows the store (onupdate), every other field keeps its value.
SoftDeleted(old, new, t) ==
    /\ new.dt_exclusao = Some(t)
    /\ \A f \in DOMAIN old \ {"dt_exclusao", "dt_atualizacao"} : new[f] = old[f]

\* delete(id) on tbl answered r at instant t, and r2 is the answer of a
\* second delete(id) afterwards.
SoftDelete(tbl, id, r, r2, t) ==
    IF id \in 1..Len(tbl) /\ tbl[id].dt_exclusao = None
    THEN /\ r.out.kind = "true"
         /\ Len(r.tbl) = Len(tbl)
         /\ SoftDeleted(tbl[id], r.tbl[id], t)
         /\ \A j \in 1..Len(tbl) : j # id => r.tbl[j] = tbl[j]
         /\ r2 = Step(r.tbl, Outcome("false", id, ""))
    ELSE r = Step(tbl, Outcome("false", id, ""))

\* C19: delete(id) of every registry is a soft delete: on a record that is
\* not deleted it sets deleted-at, keeps the row and its other fields and
\* returns true; on a missing or deleted record it returns false and
\* changes nothing, so a second delete(id) returns false and leaves the
\* first deleted-at.
C19_DeleteIsSoft ==
    LET later == now + 1 IN
    /\ \A id \in IdsOf(pais) :
          LET r == PaisDeleteStep(pais, id, now) IN
          SoftDelete(pais, id, r, PaisDeleteStep(r.tbl, id, later), now)
    /\ \A id \in IdsOf(estado) :
          LET r == EstadoDeleteStep(estado, id, now) IN
          SoftDelete(estado, id, r, EstadoDeleteStep(r.tbl, id, later), now)
    /\ \A id \in IdsOf(cidade) :
          LET r == CidadeDeleteStep(cidade, id, now) IN
          SoftDelete(cidade, id, r, CidadeDeleteStep(r.tbl, id, later), now)
    /\ \A id \in IdsOf(perfil) :
          LET r == PerfilDeleteStep(perfil, id, now) IN
          SoftDelete(perfil, id, r, PerfilDeleteStep(r.tbl, id, later), now)
    /\ \A id \in IdsOf(usuario) :
          LET r == UsuarioDeleteStep(usuario, id, now) IN
          SoftDelete(usuario, id, r, UsuarioDeleteStep(r.tbl, id, later), now)
    /\ \A id \in IdsOf(endereco) :
          LET r == EnderecoDeleteStep(endereco, id, now) IN
          SoftDelete(endereco, id, r, EnderecoDeleteStep(r.tbl, id, later), now)

-----------------------------------------------------------------------------
\* Names and codes as the schemas hand them to check_duplicate.
Nomes == {Title(Strip(d)) : d \in RawNames}
Siglas == {Upper(Strip(g)) : g \in RawSiglas}

\* The non-deleted rows among ids, other than exclude_id.
Siblings(tbl, ids, exclude_id) ==
    {i \in ids : tbl[i].dt_exclusao = None /\ (IsSome(exclude_id) => i # Get(exclude_id))}

\* The answer names the attribute that collides: the name whenever a row of
\* byName exists, the code only when none does and a row of byCode exists.
NamesAttribute(chk, byName, byCode) ==
    /\ byName # {} => chk = [dup |-> TRUE, msg |-> "nome"]
    /\ chk.msg = "sigla" => byName = {} /\ byCode # {}
    /\ byName = {} /\ byCode # {} => chk = [dup |-> TRUE, msg |-> "sigla"]

\* C20: the duplicate conflict of country, state and city names the
\* colliding attribute: the duplicate-name message whenever a non-deleted
\* sibling has the same name without case, the duplicate-code message only
\* when no sibling has the name and one has the code, also when one sibling
\* collides on the name and another on the code.
C20_ConflictNamesAttribute ==
    /\ \A descricao \in Nomes, sigla \in Siglas, exclude_id \in OptOf(1..Len(pais)) :
          LET sibs == Siblings(pais, 1..Len(pais), exclude_id) IN
          \A chk \in PaisCheckDuplicate(pais, descricao, sigla, exclude_id) :
             NamesAttribute(chk,
                {i \in sibs : Lower(pais[i].descricao) = Lower(descricao)},
                {i \in sibs : Lower(pais[i].sigla) = Lower(sigla)})
    /\ \A pais_id \in IdsOf(pais), descricao \in Nomes, sigla \in Siglas,
          exclude_id \in OptOf(1..Len(estado)) :
          LET sibs == Siblings(estado, {i \in 1..Len(estado) : estado[i].pais_id = pais_id},
                               exclude_id) IN
          \A chk \in EstadoCheckDuplicate(estado, pais_id, descricao, sigla, exclude_id) :
             NamesAttribute(chk,
                {i \in sibs : Lower(estado[i].descricao) = Lower(descricao)},
                {i \in sibs : Lower(estado[i].sigla) = Lower(sigla)})
    /\ \A estado_id \in IdsOf(estado), descricao \in Nomes,
          sigla \in {Some(g) : g \in RawCidadeSiglas}, exclude_id \in OptOf(1..Len(cidade)) :
          LET sibs == Siblings(cidade, {i \in 1..Len(cidade) : cidade[i].estado_id = estado_id},
                               exclude_id) IN
          \A chk \in CidadeCheckDuplicate(cidade, estado_id, descricao, sigla, exclude_id) :
             NamesAttribute(chk,
                {i \in sibs : Lower(cidade[i].descricao) = Lower(descricao)},
                {i \in sibs : /\ IsSome(cidade[i].sigla)
                              /\ Lower(Get(cidade[i].sigla)) = Lower(Get(sigla))})

-----------------------------------------------------------------------------
\* Outcomes of an operation that did not commit: a duplicate conflict, a
\* record not found, or an exception.
Uncommitted == {"message", "conflict", "none", "false", "invalid", "fault"}

\* Updates of a user that carry an address, a profile id and a name.
UsuarioPatches ==
    {UpdateUsuario(e, p, nome, None, None, None, None) :
        e \in OptOf({UpdateEndereco(c, Some(cep), Some(<<"n", "o", "v", "o">>)) :
                        c \in IdsOf(cidade), cep \in RawCeps}),
        p \in OptOf(IdsOf(perfil)), nome \in OptOf(RawNomes)}
    \ {UpdateUsuario(None, None, None, None, None, None, None)}

\* C21: every registry operation is all-or-nothing: one that ends in a
\* duplicate conflict, in not-found or in a failure raised before its commit
\* leaves every stored row as it was, with no field partly changed and no
\* uncommitted write left for later operations.
C21_AllOrNothing ==
    /\ \A d \in RawNames, s \in RawSiglas :
          /\ \A r \in PaisCreateStep(pais, PaisBase(d, s), now) :
                r.out.kind \in Uncommitted => r.tbl = pais
          /\ \A p \in IdsOf(pais) :
                \A r \in EstadoCreateStep(pais, estado, EstadoBase(p, d, s), now) :
                   r.out.kind \in Uncommitted => r.tbl = estado
    /\ \A d \in OptOf(RawNames), s \in OptOf(RawSiglas) :
          /\ \A id \in IdsOf(pais) :
                \A r \in PaisUpdateStep(pais, id, UpdatePais(d, s), now) :
                   r.out.kind \in Uncommitted => r.tbl = pais
          /\ \A id \in IdsOf(estado), p \in OptOf(IdsOf(pais)) :
                \A r \in EstadoUpdateStep(pais, estado, id, UpdateEstado(p, d, s), now) :
                   r.out.kind \in Uncommitted => r.tbl = estado
    /\ \A d \in RawNames, s \in OptOf(RawCidadeSiglas), e \in IdsOf(estado) :
          \A r \in CidadeCreateStep(estado, cidade, CidadeBase(e, d, s), now) :
             r.out.kind \in Uncommitted => r.tbl = cidade
    /\ \A d \in OptOf(RawNames), s \in OptOf(RawCidadeSiglas),
          id \in IdsOf(cidade), e \in OptOf(IdsOf(estado)) :
          \A r \in CidadeUpdateStep(estado, cidade, id, UpdateCidade(e, d, s), now) :
             r.out.kind \in Uncommitted => r.tbl = cidade
    /\ \A d \in RawNames :
          /\ LET r == PerfilCreateStep(perfil, PerfilBase(d), now) IN
             r.out.kind \in Uncommitted => r.tbl = perfil
          /\ \A id \in IdsOf(perfil) :
                \A r \in PerfilUpdateStep(perfil, id, UpdatePerfil(Some(d)), now) :
                   r.out.kind \in Uncommitted => r.tbl = perfil
    /\ \A id \in IdsOf(endereco), c \in IdsOf(cidade), cep \in OptOf(RawCeps) :
          LET r == EnderecoUpdateStep(cidade, endereco, id,
                                      UpdateEndereco(c, cep, Some(<<"s">>)), now) IN
          r.out.kind \in Uncommitted => r.tbl = endereco
    /\ \A data \in UsuarioPayloads(IdsOf(perfil), IdsOf(cidade), RawCpfs,
                                   OptOf(RawEmails), {SenhaCurta}) :
          \A r \in UsuarioCreateStep(perfil, cidade, endereco, usuario, data, now) :
             r.out.kind \in Uncommitted => r.endereco = endereco /\ r.usuario = usuario
    /\ \A id \in IdsOf(usuario), data \in UsuarioPatches :
          \A r \in UsuarioUpdateStep(perfil, cidade, endereco, usuario, id, data, now) :
             r.out.kind \in Uncommitted => r.endereco = endereco /\ r.usuario = usuario

\* A user is registered and an update of it that carries a new address and a
\* profile that does not exist fails after the statement on the address;
\* a create of a profile is a conflict.
C21_Witness ==
    /\ \E id \in UsuarioGetAll(usuario), data \in UsuarioPatches :
          /\ IsSome(data.endereco)
          /\ EnderecoStorageOk(cidade, [endereco[usuario[id].endereco_id] EXCEPT
                                           !.cidade_id = Get(data.endereco).cidade_id,
                                           !.cep = Get(data.endereco).cep,
                                           !.complemento = Get(data.endereco).complemento])
          /\ Get(data.endereco).complemento # endereco[usuario[id].endereco_id].complemento
          /\ \A r \in UsuarioUpdateStep(perfil, cidade, endereco, usuario, id, data, now) :
                r.out.kind = "fault"
    /\ \E d \in RawNames : PerfilCreateStep(perfil, PerfilBase(d), now).out.kind = "conflict"

-----------------------------------------------------------------------------
\* The user rows that reference address a.
OwnersOf(a) == {u \in 1..Len(usuario) : usuario[u].endereco_id = a}

\* C22: create of a user writes the address and the user atomically: the
\* address row comes first and its id is the user's address id; in every
\* committed state each address created by a user create is referenced by
\* exactly one user row; if the user row cannot be written no address row
\* remains.
C22_AddressCreatedWithUser ==
    /\ \A a \in 1..Len(endereco) : Cardinality(OwnersOf(a)) = 1
    /\ \A data \in UsuariosPayloads :
          \A r \in UsuarioCreateStep(perfil, cidade, endereco, usuario, data, now) :
             IF r.out.kind = "entity"
             THEN /\ r.endereco = Append(endereco, EnderecoRow(data.endereco, now))
                  /\ Len(r.usuario) = Len(usuario) + 1
                  /\ r.usuario[Len(r.usuario)].endereco_id = Len(r.endereco)
                  /\ \A u \in 1..Len(usuario) : r.usuario[u] = usuario[u]
             ELSE r.endereco = endereco /\ r.usuario = usuario

\* Two users with an address each are stored, one of them deleted, and a
\* create with the tax id of the deleted one passes the checks of the
\* service, has its address accepted and fails on the user row.
C22_Witness ==
    /\ Len(usuario) = 2 /\ Len(endereco) = 2
    /\ \E u \in 1..Len(usuario) : usuario[u].dt_exclusao # None
    /\ \E data \in UsuariosPayloads :
          /\ UsuarioGetByCpfCnpj(usuario, data.cpf_cnpj) = {}
          /\ UsuarioGetByEmail(usuario, Get(data.email)) = {}
          /\ EnderecoStorageOk(cidade, EnderecoRow(data.endereco, now))
          /\ \A r \in UsuarioCreateStep(perfil, cidade, endereco, usuario, data, now) :
                r.out.kind = "fault"

-----------------------------------------------------------------------------
\* What the requester of a recovery reads: the status and the body of the
\* response (message and dev_info).
Visible(resp) == [status |-> resp.status, message |-> resp.message, dev_info |-> resp.issued]

\* C23: the password-recovery request does not tell the requester whether
\* the user exists: a request whose credential matches a non-deleted user
\* and one whose credential matches none get the same response.
C23_RecoveryHidesExistence ==
    \A known \in Credentials, unknown \in Credentials :
       /\ UsuarioFindByCredential(usuario, known) # {}
       /\ UsuarioFindByCredential(usuario, unknown) = {}
       => {Visible(resp) : resp \in request_password_recovery(usuario, known, now, tz,
                                                             "sent", "sent")}
          = {Visible(resp) : resp \in request_password_recovery(usuario, unknown, now, tz,
                                                               "sent", "sent")}

-----------------------------------------------------------------------------
\* The attributes the class UsuarioService defines (services/usuario.py).
UsuarioServiceAttributes ==
    {"get_all", "get_by_id", "get_by_cpf_cnpj", "get_by_email", "_hash_password",
     "_verify_password", "authenticate_user", "create", "update", "delete",
     "change_password", "reset_password", "find_user_by_credential",
     "generate_password_reset_token", "verify_password_reset_token"}

\* login (routes/auth.py): it calls UsuarioService.autenticar; looking up an
\* attribute the class does not define raises AttributeError, which the
\* handler turns into an internal server error.
login(tbl, cpf_cnpj, senha) ==
    IF "autenticar" \notin UsuarioServiceAttributes
    THEN {HttpResponse(500, "Erro ao autenticar usuario")}
    ELSE {IF out.kind = "entity" THEN HttpResponse(200, out.id)
          ELSE IF out.kind = "none" THEN HttpResponse(401, "Credenciais invalidas")
          ELSE HttpResponse(500, "Erro ao autenticar usuario")
          : out \in UsuarioAuthenticate(tbl, cpf_cnpj, senha)}

\* C24: login answers with the user when the tax id resolves to a
\* non-deleted user and the password verifies against the stored hash, and
\* with 401 when no such user is found or the password does not verify; a
\* well-formed request never ends in a server fault.
C24_LoginAuthenticates ==
    \A cpf_cnpj \in Credentials, senha \in Senhas :
       \A resp \in login(usuario, cpf_cnpj, senha) :
          /\ resp.status # 500
          /\ resp \in {IF out.kind = "entity" THEN HttpResponse(200, out.id)
                       ELSE HttpResponse(401, "Credenciais invalidas")
                       : out \in UsuarioAuthenticate(usuario, cpf_cnpj, senha)}

-----------------------------------------------------------------------------
(* Users whose e-mail address holds digits, asking for recovery tokens.     *)
\* An e-mail address whose digits are those of a tax id.
DigitEmails == { <<"1", "2", "3", "4", "5", "6", "7", "8", "9", "0", "1", "@", "s", "p">> }

CredentialPayloads ==
    UsuarioPayloads({1}, {1}, AuthCpfs, {Some(e) : e \in DigitEmails \cup RawEmails},
                    {SenhaCurta})

CredentialInputs == Credentials \cup DigitEmails

NextCredential ==
    \/ \E data \in CredentialPayloads : UsuarioCreate(data)
    \/ \E id \in IdsOf(usuario) : UsuarioDelete(id)
    \/ \E credential \in CredentialInputs : RequestPasswordRecovery(credential, "sent", "sent")

SpecCredential == InitRegistry /\ [][NextCredential]_vars

\* C25: find_user_by_credential(c), and with it
\* generate_password_reset_token(c), resolves to user U whenever c is the
\* e-mail address of U, compared without case, and U is not deleted; no
\* other user is returned because the digits of c are those of that user's
\* tax id.
C25_EmailResolvesToOwner ==
    \A u \in UsuarioGetAll(usuario), c \in CredentialInputs :
       Lower(c) = Lower(Get(usuario[u].email)) =>
          /\ UsuarioFindByCredential(usuario, c) = {u}
          /\ \A r \in GeneratePasswordResetToken(usuario, c, now, tz) :
                r # None /\ Get(r).usuario = u

\* The same for the addresses that hold no digit.
C25_PlainEmailResolvesToOwner ==
    \A u \in UsuarioGetAll(usuario), c \in CredentialInputs :
       Lower(c) = Lower(Get(usuario[u].email)) /\ Digits(c) = <<>> =>
          UsuarioFindByCredential(usuario, c) = {u}

-----------------------------------------------------------------------------
\* validate_recovery_token (routes/auth.py): the body it answers with.
validate_recovery_token(tbl, token, t, utcoffset) ==
    LET usuario_id == VerifyPasswordResetToken(token, t, utcoffset) IN
    IF VerifyPasswordResetTokenRaises(token, t, utcoffset)
    THEN HttpResponse(500, [valid |-> FALSE, message |-> "Erro ao validar token"])
    ELSE IF usuario_id = None
    THEN HttpResponse(200, [valid |-> FALSE, message |-> "Token invalido ou expirado"])
    ELSE IF UsuarioGetById(tbl, Get(usuario_id)) = None
    THEN HttpResponse(200, [valid |-> FALSE, message |-> "Usuario nao encontrado"])
    ELSE HttpResponse(200, [valid |-> TRUE, message |-> "Token valido"])

\* The users that were soft-deleted.
DeletedUsers == {u \in 1..Len(usuario) : usuario[u].dt_exclusao # None}

\* No credential operation answers for the deleted user u: authenticate
\* with its tax id and any password returns nothing, asking for a token with
\* its tax id or its e-mail address issues none, change and reset of the
\* password report not-found, and a token of the user, still verifying,
\* validates as not valid and resets nothing.
LockedOut(u) ==
    /\ \A senha \in Senhas :
          UsuarioAuthenticate(usuario, usuario[u].cpf_cnpj, senha) = {Outcome("none", 0, "")}
    /\ \A c \in {usuario[u].cpf_cnpj, Get(usuario[u].email)} :
          GeneratePasswordResetToken(usuario, c, now, tz) = {None}
    /\ \A senha_atual \in Senhas, nova_senha \in Senhas :
          /\ ChangePasswordStep(usuario, u, senha_atual, nova_senha, now)
                = {Step(usuario, Outcome("false", u, ""))}
          /\ ResetPasswordStep(usuario, u, nova_senha, now)
                = {Step(usuario, Outcome("false", u, ""))}
    /\ \A r \in tokens, nova_senha \in Senhas :
          r.usuario = u =>
             /\ ~validate_recovery_token(usuario, r.token, now, tz).body.valid
             /\ \A s \in ResetPasswordWithTokenStep(usuario, r.token, nova_senha, now, tz) :
                   s.tbl = usuario /\ s.out.kind \in {"false", "invalid"}

\* C26: a soft-deleted user is locked out of every credential operation:
\* authenticate and generate_password_reset_token return nothing, change
\* and reset of the password report not-found, and a reset token issued
\* before the deletion cannot change the stored credential.
C26_DeletedLockedOut == \A u \in DeletedUsers : LockedOut(u)

\* The stored credential of a deleted user is never modified, and the user
\* stays deleted.
C26_CredentialKept ==
    [][\A u \in DeletedUsers :
          /\ usuario'[u].senha = usuario[u].senha
          /\ usuario'[u].dt_exclusao = usuario[u].dt_exclusao]_vars

\* A user was deleted after a token was issued to it, and the token still
\* verifies.
C26_Witness ==
    \E r \in tokens :
       /\ r.usuario \in DeletedUsers
       /\ VerifyPasswordResetToken(r.token, now, tz) = Some(r.usuario)

-----------------------------------------------------------------------------
\* The payload carries the tax id or the e-mail address of a deleted user.
ReusesDeleted(data) ==
    \E d \in DeletedUsers :
       \/ usuario[d].cpf_cnpj = data.cpf_cnpj
       \/ Lower(Get(usuario[d].email)) = Lower(Get(data.email))

\* The duplicate check of create finds no user for the payload.
PassesDuplicateCheck(data) ==
    /\ UsuarioGetByCpfCnpj(usuario, data.cpf_cnpj) = {}
    /\ UsuarioGetByEmail(usuario, Get(data.email)) = {}

\* C27: after a user was soft-deleted, a create with its tax id or its
\* e-mail address is not rejected by the duplicate check of the service,
\* which looks at non-deleted users only; the unique constraints of the
\* table count the deleted row, so the create ends in a storage failure,
\* neither in success nor in a conflict, and leaves no address row and no
\* user row.
C27_ReuseAfterDeleteFails ==
    \A data \in UsuariosPayloads :
       ReusesDeleted(data) =>
          \A r \in UsuarioCreateStep(perfil, cidade, endereco, usuario, data, now) :
             /\ r.out.kind # "entity"
             /\ PassesDuplicateCheck(data) => r.out.kind = "fault"
             /\ r.endereco = endereco /\ r.usuario = usuario

\* A user is deleted and a create with its tax id, which no other user
\* has, is about to be served.
C27_Witness ==
    \E data \in UsuariosPayloads, d \in DeletedUsers :
       /\ usuario[d].cpf_cnpj = data.cpf_cnpj
       /\ PassesDuplicateCheck(data)
       /\ EnderecoStorageOk(cidade, EnderecoRow(data.endereco, now))

-----------------------------------------------------------------------------
\* The table with no row deleted.
Revived(tbl) == [i \in 1..Len(tbl) |-> [tbl[i] EXCEPT !.dt_exclusao = None]]

\* The rows of the parent table that are soft-deleted.
DeletedRows(tbl) == {i \in 1..Len(tbl) : tbl[i].dt_exclusao # None}

\* C28: create and update of a state, and of a city, check the duplicate
\* siblings only and never the parent: they do what they would do were no
\* parent deleted, so a state without a duplicate sibling is created under,
\* or moved to, a soft-deleted country, and a city under a soft-deleted
\* state.
C28_ParentNeverChecked ==
    /\ \A p \in IdsOf(pais), d \in RawNames, s \in RawSiglas :
          LET data == EstadoBase(p, d, s)
              steps == EstadoCreateStep(pais, estado, data, now)
          IN /\ steps = EstadoCreateStep(Revived(pais), estado, data, now)
             /\ p \in DeletedRows(pais)
                /\ EstadoDuplicateRows(estado, p, data.descricao, data.sigla, None) = {}
                => steps = {Step(Append(estado, EstadoRow(data, now)),
                                 Outcome("entity", Len(estado) + 1, ""))}
    /\ \A id \in IdsOf(estado), p \in OptOf(IdsOf(pais)),
          d \in OptOf(RawNames), s \in OptOf(RawSiglas) :
          LET data == UpdateEstado(p, d, s)
              steps == EstadoUpdateStep(pais, estado, id, data, now)
          IN /\ steps = EstadoUpdateStep(Revived(pais), estado, id, data, now)
             /\ EstadoGetById(estado, id) # None /\ IsSome(p)
                /\ Get(p) \in DeletedRows(pais) /\ Get(p) # estado[id].pais_id
                /\ d = None /\ s = None
                /\ EstadoDuplicateRows(estado, Get(p), estado[id].descricao,
                                       estado[id].sigla, Some(id)) = {}
                => \A r \in steps : /\ r.out.kind = "entity"
                                    /\ r.tbl[id].pais_id = Get(p)
                                    /\ r.tbl[id].dt_exclusao = None
    /\ \A e \in IdsOf(estado), d \in RawNames, s \in OptOf(RawCidadeSiglas) :
          LET data == CidadeBase(e, d, s)
              steps == CidadeCreateStep(estado, cidade, data, now)
          IN /\ steps = CidadeCreateStep(Revived(estado), cidade, data, now)
             /\ e \in DeletedRows(estado)
                /\ (\A r \in steps : r.out.kind # "message")
                => steps = {Step(Append(cidade, CidadeRow(data, now)),
                                 Outcome("entity", Len(cidade) + 1, ""))}
    /\ \A id \in IdsOf(cidade), e \in OptOf(IdsOf(estado)),
          d \in OptOf(RawNames), s \in OptOf(RawCidadeSiglas) :
          CidadeUpdateStep(estado, cidade, id, UpdateCidade(e, d, s), now)
             = CidadeUpdateStep(Revived(estado), cidade, id, UpdateCidade(e, d, s), now)

\* A non-deleted state whose country was deleted before the state was
\* created.
C28_Witness ==
    \E e \in EstadoGetAll(estado) :
       LET p == pais[estado[e].pais_id] IN
       p.dt_exclusao # None /\ Get(p.dt_exclusao) < estado[e].dt_criacao

-----------------------------------------------------------------------------
\* The passwords that differ from senha within the bytes bcrypt reads.
DistinctFor(senha) ==
    {s \in Senhas : HashPassword(s, "salt") # HashPassword(senha, "salt")}

\* C29: update(id, data) with a non-empty password replaces the stored
\* credential with the hash of the new password without verifying the
\* current one; afterwards authenticate succeeds with the new password and
\* fails with the old one.
C29_UpdateReplacesCredential ==
    \A id \in UsuarioGetAll(usuario) : \A new \in Senhas \ {senhas[id]} :
       \A r \in UsuarioUpdateStep(perfil, cidade, endereco, usuario, id,
                                  UpdateUsuario(None, None, None, None, None, None, Some(new)),
                                  now) :
          /\ r.out.kind = "entity"
          /\ \E salt \in Salts : r.usuario[id].senha = HashPassword(new, salt)
          /\ Authenticates(r.usuario, id, new)
          /\ Rejects(r.usuario, id, senhas[id])

\* The same when the old and the new password differ within the bytes
\* bcrypt reads.
C29_UpdateReplacesDistinctCredential ==
    \A id \in UsuarioGetAll(usuario) : \A new \in DistinctFor(senhas[id]) :
       \A r \in UsuarioUpdateStep(perfil, cidade, endereco, usuario, id,
                                  UpdateUsuario(None, None, None, None, None, None, Some(new)),
                                  now) :
          /\ r.out.kind = "entity"
          /\ \E salt \in Salts : r.usuario[id].senha = HashPassword(new, salt)
          /\ Authenticates(r.usuario, id, new)
          /\ Rejects(r.usuario, id, senhas[id])

-----------------------------------------------------------------------------
(* Creates of users served by sessions that overlap: each session runs the *)
(* duplicate check of UsuarioService.create on the rows committed so far    *)
(* and writes the address and the user later, in one transaction.           *)
\* A second half of create on a table without unique constraints.
UsuarioCommitStepUnconstrained(perfilTbl, cidadeTbl, enderecoTbl, tbl, data, t) ==
    LET endRow == EnderecoRow(data.endereco, t) IN
    IF ~EnderecoStorageOk(cidadeTbl, endRow)
    THEN {UStep(enderecoTbl, tbl, Outcome("fault", 0, ""))}
    ELSE {UStep(Append(enderecoTbl, endRow),
                Append(tbl, UsuarioRow(data, Len(enderecoTbl) + 1,
                                       HashPassword(data.senha, salt), t)),
                Outcome("entity", Len(tbl) + 1, ""))
          : salt \in Salts}

\* The second half of UsuarioService.create: the address is flushed, the
\* user inserted and both committed; the unique constraints are checked
\* against the rows committed by then, and a failure rolls the address
\* back with the session.
UsuarioCommitStep(perfilTbl, cidadeTbl, enderecoTbl, tbl, data, t) ==
    LET endRow == EnderecoRow(data.endereco, t) IN
    IF ~EnderecoStorageOk(cidadeTbl, endRow)
    THEN {UStep(enderecoTbl, tbl, Outcome("fault", 0, ""))}
    ELSE {LET row == UsuarioRow(data, Len(enderecoTbl) + 1,
                                HashPassword(data.senha, salt), t)
          IN IF UsuarioStorageOk(perfilTbl, Append(enderecoTbl, endRow), tbl, row, 0)
             THEN UStep(Append(enderecoTbl, endRow), Append(tbl, row),
                        Outcome("entity", Len(tbl) + 1, ""))
             ELSE UStep(enderecoTbl, tbl, Outcome("fault", 0, ""))
          : salt \in Salts}

\* The first half: the two lookups of create.  A duplicate ends the request
\* with the conflict.
UsuarioCreateCheck(s, data) ==
    /\ pending[s] = None
    /\ Len(usuario) + Cardinality(PendingOn("usuario")) < MaxPerTable
    /\ pending' = IF \/ UsuarioGetByCpfCnpj(usuario, data.cpf_cnpj) # {}
                     \/ (Truthy(data.email)
                         /\ UsuarioGetByEmail(usuario, Get(data.email)) # {})
                  THEN pending
                  ELSE [pending EXCEPT ![s] = Some([tabela |-> "usuario", data |-> data])]
    /\ UNCHANGED <<geoVars, userVars, now, authVars>>

UsuarioCreateCommit(s) ==
    /\ s \in PendingOn("usuario")
    /\ \E r \in UsuarioCommitStep(perfil, cidade, endereco, usuario,
                                  Get(pending[s]).data, now) :
          /\ endereco' = r.endereco
          /\ usuario' = r.usuario
          /\ senhas' = IF r.out.kind = "entity"
                       THEN Append(senhas, Get(pending[s]).data.senha) ELSE senhas
    /\ pending' = [pending EXCEPT ![s] = None]
    /\ UNCHANGED <<geoVars, perfil, now, tokens, tz, trocadas>>

NextUsuarioRace ==
    \/ \E s \in Sessions, data \in UsuariosPayloads : UsuarioCreateCheck(s, data)
    \/ \E s \in Sessions : UsuarioCreateCommit(s)
    \/ \E id \in IdsOf(usuario) : UsuarioDelete(id)

SpecUsuarioRace == InitRegistry /\ [][NextUsuarioRace]_vars

\* Two payloads with the same tax id or the same e-mail address.
SameIdentity(d1, d2) ==
    \/ d1.cpf_cnpj = d2.cpf_cnpj
    \/ Lower(Get(d1.email)) = Lower(Get(d2.email))

\* The sessions s1 and s2 have both passed the duplicate check of a create
\* of a user, with the same tax id or e-mail address.
BothPassed(s1, s2) ==
    /\ s1 # s2
    /\ {s1, s2} \subseteq PendingOn("usuario")
    /\ SameIdentity(Get(pending[s1]).data, Get(pending[s2]).data)

\* C30: two overlapping creates of a user with the same tax id (or e-mail
\* address) can both pass the duplicate check of the service; the unique
\* constraints of the table let at most one user row be committed, and the
\* create that loses ends in a storage failure, not in a conflict, leaving
\* no address row of its own.
C30_ConcurrentCreateOneWins ==
    /\ \A i \in 1..Len(usuario), j \in 1..Len(usuario) :
          i # j => /\ usuario[i].cpf_cnpj # usuario[j].cpf_cnpj
                   /\ Lower(Get(usuario[i].email)) # Lower(Get(usuario[j].email))
    /\ \A s1 \in Sessions, s2 \in Sessions :
          BothPassed(s1, s2) =>
             \A r1 \in UsuarioCommitStep(perfil, cidade, endereco, usuario,
                                         Get(pending[s1]).data, now) :
                r1.out.kind = "entity" =>
                   \A r2 \in UsuarioCommitStep(perfil, cidade, r1.endereco, r1.usuario,
                                               Get(pending[s2]).data, now) :
                      /\ r2.out.kind = "fault"
                      /\ r2.usuario = r1.usuario
                      /\ r2.endereco = r1.endereco

\* Two sessions have passed the duplicate check with the same tax id and
\* different e-mail addresses, and the table would accept either of them.
C30_Witness ==
    \E s1 \in Sessions, s2 \in Sessions :
       /\ BothPassed(s1, s2)
       /\ Get(pending[s1]).data.cpf_cnpj = Get(pending[s2]).data.cpf_cnpj
       /\ Lower(Get(Get(pending[s1]).data.email)) # Lower(Get(Get(pending[s2]).data.email))
       /\ \A s \in {s1, s2} :
             \A r \in UsuarioCommitStep(perfil, cidade, endereco, usuario,
                                        Get(pending[s]).data, now) :
                r.out.kind = "entity"

====
